---- MODULE Spec2Model ----
(***************************************************************************)
(* Bot orchestration engine of autoblitz-backend: BotRunner (the per-bot   *)
(* tick loop and its two auxiliary loops), the OrderExecutor /             *)
(* PositionManager / RiskManager / StrategyExecutor it composes, and the   *)
(* BotLifecycleManager that keeps the registry of runners.                 *)
(*                                                                         *)
(* The specifications share the variables, among them:                     *)
(*   SpecRunner  one BotRunner driven through its public methods, with the *)
(*               exchange answering nondeterministically;                  *)
(*   SpecLM      BotLifecycleManager over a small set of bots;             *)
(*   SpecRisk    RiskManager.check_risk / record_trade on drawn inputs.    *)
(* A specification leaves the variables of the others untouched.           *)
(***************************************************************************)
EXTENDS Integers, Sequences, FiniteSets, TLC

(* ------------------------------ bounds -------------------------------- *)
MaxTicks == 7
MaxOrders == 2
MaxRecorded == 2
MaxClock == 400
MaxEarlier == 1
MaxStepTicks == 4

(* ------------------------- program constants -------------------------- *)
ErrorLimit == 5
StartCtorArgs == 2
RunnerCtorArity == 3
StaleThreshold == 300
Capital == 1000
MaxLossPercentage == -15
MaxDrawdown == -20
MaxPositionSize == 80
DailyLossLimit == -5
MaxTradesPerHour == 10
MaxTradesPerDay == 100
VolatilityThreshold == 5
BaseAmount == 10

VARIABLES
  \* BotRunner
  state, stop_requested, graceful_stop_requested, paused, running,
  tick_count, error_count, last_price, total_profit,
  runPc, mainPc, hbPc, pricePc,
  \* PositionManager.position and the OrderInfo objects shared by
  \* OrderExecutor and PositionManager
  position, orders,
  \* RiskManager, and the arguments and result of its last check_risk
  rm, lastCheck,
  \* BotLifecycleManager: the keys of the registry, the BotContext (with its
  \* runner) made for each bot, the task
  \* running _run_bot, the persisted Bot rows, the clock, the monitor task
  \* and the answer of the last handler
  running_bots, context, task, db, now, monitor, reply,
  \* observations of what the runner did (not read by the program)
  obs,
  \* an OrderExecutor on its own, and its last call
  ex, exLast,
  pm, pmLast,
  buys,
  \* a StrategyExecutor on its own, and its last get_signal call
  se, seLast,
  \* the inputs and the steps of the last initialize() followed step by step
  boot,
  \* where the main loop's tick is when it is followed await by await
  tickPc

runnerVars == <<state, stop_requested, graceful_stop_requested, paused, running,
                tick_count, error_count, last_price, total_profit,
                runPc, mainPc, hbPc, pricePc, position, orders, obs>>
riskVars == <<rm, lastCheck>>
lmVars == <<running_bots, context, task, db, now, monitor, reply>>
\* the components that are also specified on their own
unitVars == <<ex, exLast, pm, pmLast, buys, se, seLast, boot, tickPc>>
vars == <<runnerVars, riskVars, lmVars, unitVars>>
\* what no step of a BotRunner touches
outside == <<lastCheck, lmVars, unitVars>>
stepOutside == <<lastCheck, lmVars, ex, exLast, pm, pmLast, se, seLast, boot>>
tickOutside == <<stepOutside, tickPc>>

(* --------------------------- value domains ---------------------------- *)
BotState == {"idle", "initializing", "running", "paused", "stopping", "stopped", "error"}
PositionStatus == {"empty", "building", "holding", "closing", "closed"}
OrderStatus == {"new", "pending", "open", "partially_filled", "filled",
                "canceled", "rejected", "expired"}
NoPrice == -1
Prices == {0, 100, 104}
\* what ExchangeClient.get_ticker can answer: nothing, a ticker whose 'last'
\* does not parse, or a ticker with a price
TickerAnswers ==
  {[kind |-> "none", last |-> 0], [kind |-> "bad", last |-> 0]}
    \cup {[kind |-> "ticker", last |-> p] : p \in Prices}
\* the 'status' of the record the exchange returns for a new order, or "fail"
\* when every attempt of _execute_exchange_order came back empty
SubmitAnswers == {"fail", "closed", "open"}
\* what get_order_status of the exchange can answer for one order
PollAnswers == {"none", "closed", "open", "filled", "canceled"}

(* --------------------------- RiskManager ------------------------------ *)
\* RiskCheckResult (the reason text is represented by the rule that fired)
RiskResult(stop, pause, reduce, sev, rule) ==
  [should_stop |-> stop, should_close_position |-> FALSE,
   should_reduce_position |-> reduce, should_pause |-> pause,
   severity |-> sev, rule |-> rule]

\* _reset_time_counters: the hour window / the calendar day has elapsed
ResetTimeCounters(r, hourElapsed, dayChanged) ==
  [r EXCEPT !.trade_count_hour = IF hourElapsed THEN 0 ELSE @,
            !.trade_count_day = IF dayChanged THEN 0 ELSE @,
            !.daily_pnl = IF dayChanged THEN 0 ELSE @]

\* whether the hour window / the day may have elapsed at a check: for a
\* manager whose counters of the window are 0 the reset changes nothing
HourChoices(r) == IF r.trade_count_hour = 0 THEN {FALSE} ELSE BOOLEAN
DayChoices(r) ==
  IF r.trade_count_day = 0 /\ r.daily_pnl = 0 THEN {FALSE} ELSE BOOLEAN

\* _check_loss_limits: percentages compared without the division
\* (capital > 0): x / capital * 100 <= limit  <=>  x * 100 <= limit * capital
CheckLossLimits(r, profit) ==
  IF profit * 100 <= r.max_loss_percentage * Capital
  THEN RiskResult(TRUE, FALSE, FALSE, "CRITICAL", "total_loss")
  ELSE IF r.daily_pnl * 100 <= DailyLossLimit * Capital
       THEN RiskResult(FALSE, TRUE, FALSE, "HIGH", "daily_loss")
       ELSE RiskResult(FALSE, FALSE, FALSE, "LOW", "loss_ok")

CheckPositionSize(pos) ==
  IF pos.total_cost * 100 > MaxPositionSize * Capital
  THEN RiskResult(FALSE, FALSE, TRUE, "MEDIUM", "position_size")
  ELSE RiskResult(FALSE, FALSE, FALSE, "LOW", "position_ok")

\* _check_trading_frequency that pauses only above the limits
CheckTradingFrequencyAbove(r) ==
  IF r.trade_count_hour > MaxTradesPerHour
  THEN RiskResult(FALSE, TRUE, FALSE, "MEDIUM", "trades_hour")
  ELSE IF r.trade_count_day > MaxTradesPerDay
       THEN RiskResult(FALSE, TRUE, FALSE, "HIGH", "trades_day")
       ELSE RiskResult(FALSE, FALSE, FALSE, "LOW", "frequency_ok")

CheckTradingFrequency(r) ==
  IF r.trade_count_hour >= MaxTradesPerHour
  THEN RiskResult(FALSE, TRUE, FALSE, "MEDIUM", "trades_hour")
  ELSE IF r.trade_count_day >= MaxTradesPerDay
       THEN RiskResult(FALSE, TRUE, FALSE, "HIGH", "trades_day")
       ELSE RiskResult(FALSE, FALSE, FALSE, "LOW", "frequency_ok")

Abs(x) == IF x < 0 THEN -x ELSE x

\* _check_market_volatility: breached against the price kept by the last
\* check that passed; a missing or zero reference price skips the test
VolatilityBreached(r, price) ==
  /\ r.last_price # NoPrice
  /\ r.last_price # 0
  /\ Abs(price - r.last_price) * 100 > r.volatility_threshold * r.last_price

\* _check_drawdown: raises the peak, then compares the fall from it
PeakAfter(r, profit) ==
  IF Capital + profit > r.peak_balance THEN Capital + profit ELSE r.peak_balance

DrawdownBreached(r, profit) ==
  (Capital + profit - PeakAfter(r, profit)) * 100 <= MaxDrawdown * PeakAfter(r, profit)

\* check_risk: [rm |-> RiskManager state after the call, result |-> RiskCheckResult]
CheckRisk(r0, price, pos, profit, hourElapsed, dayChanged) ==
  LET r1 == ResetTimeCounters(r0, hourElapsed, dayChanged)
      loss == CheckLossLimits(r1, profit)
      size == CheckPositionSize(pos)
      freq == CheckTradingFrequency(r1)
      r2 == [r1 EXCEPT !.last_price = price]
      r3 == [r2 EXCEPT !.peak_balance = PeakAfter(r2, profit)]
  IN IF loss.should_stop THEN [rm |-> r1, result |-> loss]
     ELSE IF size.should_reduce_position THEN [rm |-> r1, result |-> size]
     ELSE IF freq.should_pause THEN [rm |-> r1, result |-> freq]
     ELSE IF VolatilityBreached(r1, price)
          THEN [rm |-> r1, result |-> RiskResult(FALSE, TRUE, FALSE, "MEDIUM", "volatility")]
     ELSE IF DrawdownBreached(r2, profit)
          THEN [rm |-> r3, result |-> RiskResult(TRUE, FALSE, FALSE, "CRITICAL", "drawdown")]
     ELSE [rm |-> r3, result |-> RiskResult(FALSE, FALSE, FALSE, "LOW", "passed")]

\* record_trade
RecordTrade(r, profit) ==
  [r EXCEPT !.trade_count_hour = @ + 1, !.trade_count_day = @ + 1,
            !.daily_pnl = @ + profit]

\* RiskManager.__init__; of the settings the volatility threshold is varied
\* (its default, or one so wide that no price of Prices breaches it) and,
\* where a specification says so, max_loss_percentage
VolatilitySettings == {VolatilityThreshold, 20 * VolatilityThreshold}

RiskManagerNew(threshold) ==
  [daily_pnl |-> 0, peak_balance |-> Capital, trade_count_hour |-> 0,
   trade_count_day |-> 0, last_price |-> NoPrice,
   volatility_threshold |-> threshold,
   max_loss_percentage |-> MaxLossPercentage]

(* ------------------------- StrategyExecutor --------------------------- *)
\* _should_take_profit with profit_target 0.5 (%): rate >= 1/2 without division
ShouldTakeProfit(price, average_price) ==
  average_price > 0 /\ (price - average_price) * 200 >= average_price

\* _execute_dantaro_strategy as called by the tick, i.e. on the dict of
\* get_current_position whose numbers are floats while the price is a Decimal.
\* "raise" is an exception leaving the handler.
DantaroHandler(price, pos) ==
  IF pos.grid_level = 0
  THEN IF price = 0 THEN "raise"            \* grid_amounts[0] / 0
       ELSE "BUY"
  ELSE IF pos.average_price > 0 THEN "raise"  \* Decimal - float in _should_take_profit
       ELSE "HOLD"     \* no average, no 'last_buy_price' key: no rule fires

\* get_signal: every exception of the handler becomes HOLD
GetSignal(price, pos) ==
  IF DantaroHandler(price, pos) = "raise" THEN "HOLD" ELSE DantaroHandler(price, pos)

(* ---------------------- orders and the position ----------------------- *)
\* One OrderInfo object.  active: in OrderExecutor.active_orders; pending: in
\* PositionManager.pending_orders; exch: what the exchange holds for the order.
NewOrder(side, st) ==
  [side |-> side, status |-> st, filled |-> 0, cost |-> 0,
   active |-> TRUE, pending |-> FALSE, exch |-> "open"]

EmptyPosition ==
  [status |-> "empty", total_quantity |-> 0, total_cost |-> 0,
   average_price |-> 0, grid_level |-> 0]

HasOpenPosition(pos) == pos.status \in {"building", "holding", "closing"}

IsCompleted(st) == st \in {"filled", "canceled", "rejected", "expired"}

\* OrderExecutor.create_market_order on the exchange's answer: no record after
\* the retries, or a record whose 'status' is not an OrderStatus value
\* ('closed': the conversion raises), gives None; otherwise the order is kept
\* in active_orders
CreateMarketOrder(os, side, answer) ==
  IF answer = "fail" \/ answer \notin OrderStatus
  THEN [orders |-> os, order |-> 0]
  ELSE [orders |-> Append(os, NewOrder(side, answer)), order |-> Len(os) + 1]

\* PositionManager.add_buy_order / add_sell_order
AddBuyOrder(pos) ==
  IF pos.status = "empty" THEN [pos EXCEPT !.status = "building"] ELSE pos

AddSellOrder(pos, quantity) ==
  IF quantity >= pos.total_quantity THEN [pos EXCEPT !.status = "closing"] ELSE pos

\* PositionManager._process_filled_order (with _close_position when a sell
\* leaves nothing)
ProcessFilledOrder(pos, o) ==
  IF o.side = "buy"
  THEN LET q == pos.total_quantity + o.filled
           c == pos.total_cost + o.cost
       IN [status |-> "holding", total_quantity |-> q, total_cost |-> c,
           average_price |-> IF q > 0 THEN c \div q ELSE 0,
           grid_level |-> pos.grid_level + 1]
  ELSE LET q == pos.total_quantity - o.filled
       IN IF q <= 0 THEN EmptyPosition
          ELSE [pos EXCEPT !.total_quantity = q,
                           !.total_cost = q * pos.average_price]

\* PositionManager.update_order_status
PMUpdateOrderStatus(pos, o) ==
  IF ~o.pending THEN [position |-> pos, order |-> o]
  ELSE IF o.status = "filled"
       THEN [position |-> ProcessFilledOrder(pos, o),
             order |-> [o EXCEPT !.pending = FALSE]]
  ELSE IF o.status \in {"canceled", "rejected"}
       THEN [position |-> pos, order |-> [o EXCEPT !.pending = FALSE]]
  ELSE [position |-> pos, order |-> o]

\* OrderExecutor.get_order_status on the exchange's answer a; returned is
\* FALSE when the call gives None
ExecGetOrderStatus(o, a) ==
  IF ~o.active \/ a = "none" THEN [order |-> o, returned |-> TRUE]
  ELSE IF a \notin OrderStatus THEN [order |-> o, returned |-> FALSE]
  ELSE LET f == IF a = "filled" THEN 1 ELSE 0
       IN [order |-> [o EXCEPT !.status = a, !.filled = f,
                               !.cost = IF a = "filled" THEN f * BaseAmount ELSE @,
                               !.active = ~(IsCompleted(a) /\ o.status # a)],
           returned |-> TRUE]

\* what the exchange can answer to a status query of order o
PollSet(o) ==
  IF ~o.pending THEN {"none"}
  ELSE IF o.exch = "filled" THEN {"none", "filled", "closed"}
  ELSE IF o.exch = "canceled" THEN {"none", "canceled"}
  ELSE {"none", "open"}

\* BotRunner._on_order_filled: the profit booked for a filled sell, computed
\* by calculate_cycle_profit against the position as it is after the fill
CycleProfit(pos, o) ==
  IF o.side = "sell" THEN o.cost - pos.average_price * o.filled ELSE 0

\* BotRunner._update_orders: the pending orders are visited in insertion
\* order; s = [orders, position, total_profit, rm]
RECURSIVE UpdateOrdersFrom(_, _, _)
UpdateOrdersFrom(s, i, polls) ==
  IF i > Len(s.orders) THEN s
  ELSE IF ~s.orders[i].pending THEN UpdateOrdersFrom(s, i + 1, polls)
  ELSE LET g == ExecGetOrderStatus(s.orders[i], polls[i])
           u == PMUpdateOrderStatus(s.position, g.order)
           booked == g.order.status = "filled" /\ g.order.side = "sell"
           profit == CycleProfit(u.position, g.order)
       IN IF ~g.returned THEN UpdateOrdersFrom(s, i + 1, polls)
          ELSE UpdateOrdersFrom(
                 [orders |-> [s.orders EXCEPT ![i] = u.order],
                  position |-> u.position,
                  total_profit |-> IF booked THEN s.total_profit + profit
                                   ELSE s.total_profit,
                  rm |-> IF booked THEN RecordTrade(s.rm, profit) ELSE s.rm],
                 i + 1, polls)

UpdateOrders(os, pos, profit, r, polls) ==
  UpdateOrdersFrom([orders |-> os, position |-> pos, total_profit |-> profit,
                    rm |-> r], 1, polls)

\* OrderExecutor.cancel_all_orders: every order of active_orders is sent to
\* the exchange for cancellation; cancels[i] is the exchange's answer
CancelAllOrders(os, cancels) ==
  [i \in DOMAIN os |->
     IF os[i].active /\ cancels[i]
     THEN [os[i] EXCEPT !.status = "canceled", !.active = FALSE, !.exch = "canceled"]
     ELSE os[i]]

\* _close_all_positions without the test of the held quantity
CloseAllPositionsAlways(os, pos, cancels, answer) ==
  [orders |-> CreateMarketOrder(CancelAllOrders(os, cancels), "sell", answer).orders,
   sold |-> TRUE]

\* BotRunner._close_all_positions: cancel everything, then one market sell of
\* the held quantity if there is any
CloseAllPositions(os, pos, cancels, answer) ==
  IF pos.total_quantity > 0
  THEN [orders |-> CreateMarketOrder(CancelAllOrders(os, cancels), "sell", answer).orders,
        sold |-> TRUE]
  ELSE [orders |-> CancelAllOrders(os, cancels), sold |-> FALSE]

\* the answers the exchange can give: it accepts a cancellation only of an
\* order it still holds open, and the number of orders it accepts is bounded
CancelChoices(os) ==
  {c \in [DOMAIN os -> BOOLEAN] :
     \A i \in DOMAIN os : c[i] => (os[i].active /\ os[i].exch = "open")}

SubmitChoices(os) ==
  IF Len(os) < MaxOrders THEN SubmitAnswers ELSE {"fail", "closed"}

PollChoices(os) ==
  {f \in [DOMAIN os -> PollAnswers] : \A i \in DOMAIN os : f[i] \in PollSet(os[i])}

(* ----------------------- BotLifecycleManager --------------------------- *)
Bots == {1, 2}
BotStatus == {"created", "running", "paused", "stopping", "stopped", "error"}

\* a BotContext with the BotRunner it refers to, reduced to what the manager
\* reads and writes: the runner's control flags, is_running() and whether
\* its position is open; earlier counts the runners that earlier Starts made
\* for the same bot id and that still execute run()
ContextNew(t) ==
  [last_heartbeat |-> t, error_count |-> 0,
   stop_requested |-> FALSE, graceful_stop_requested |-> FALSE,
   paused |-> FALSE, running |-> FALSE, open |-> FALSE, earlier |-> 0]

\* the answer of the handler that ran in the last step (none when the last
\* step was not a handler) with what held when it was called: the bot was in
\* the registry, its start request passed the validation, its position was
\* open, the runner's initialize() was bound to fail; for a monitor sweep the
\* entries removed and those that were due
Reply(op, b, success, registered, valid, open) ==
  [op |-> op, bot |-> b, success |-> success, registered |-> registered,
   valid |-> valid, open |-> open, fault |-> FALSE, removed |-> {}, due |-> {}]

NoReply == Reply("none", 0, FALSE, FALSE, FALSE, FALSE)

\* BotLifecycleManager.__init__, over Bot rows that are new or were left
\* RUNNING by a previous process
LMInit ==
  /\ running_bots = {}
  /\ context = [b \in Bots |-> ContextNew(0)]
  /\ task = [b \in Bots |-> "none"]
  /\ db \in [Bots -> {[status |-> "created", error_message |-> "none"],
                      [status |-> "running", error_message |-> "none"]}]
  /\ now = 0
  /\ monitor = "new"
  /\ reply = NoReply

LMNew ==
  /\ LMInit
  /\ \A b \in Bots : db[b].status = "created"

(* ------------------- OrderExecutor on its own: state ------------------ *)
\* OrderExecutor.__init__.  The ids are those the exchange hands out, in
\* order; info[i] is the OrderInfo with id i (status "new" before the order
\* exists) and exch[i] what the exchange holds for it.
MaxExOrders == 2
ExIds == 1 .. MaxExOrders

ExecutorNew ==
  [active_orders |-> {}, completed_orders |-> <<>>,
   info |-> [i \in ExIds |-> [status |-> "new", filled |-> 0]],
   exch |-> [i \in ExIds |-> "none"],
   total_orders |-> 0, successful_orders |-> 0, failed_orders |-> 0]

\* the last call of the executor: its name, the id it was about, the calls
\* made to the exchange and the waits between them, whether it returned an
\* order (or TRUE), and the executor before the call
ExCall(op, id, attempts, waits, returned, pre) ==
  [op |-> op, id |-> id, attempts |-> attempts, waits |-> waits,
   returned |-> returned, pre |-> pre]

ExLastNone == ExCall("none", 0, 0, 0, FALSE, ExecutorNew)

(* ------------------ PositionManager on its own: state ----------------- *)
\* Quantities are counted in units of the dust epsilon Decimal('0.00001') of
\* _process_filled_order, prices are whole amounts per such unit.  Money is a
\* Decimal: sums, differences and products of the values here are exact, a
\* quotient is rounded half-even to the precision of the context, taken here
\* as AvgDigits decimal places.  A money value m is held as m * MoneyScale.
AvgDigits == 3
MoneyScale == 10 ^ AvgDigits
DustEpsilon == 1
MaxGridLevel == 7
MaxPmOrders == 4
MaxPmBuys == 9
MaxPmPending == 1
PmIds == 1 .. MaxPmPending
NoOrder == [side |-> "none", quantity |-> 0]

\* Decimal division n / d of n >= 0 by d > 0, rounded half-even
DivRound(n, d) ==
  LET q == n \div d
      r == n % d
  IN IF 2 * r > d \/ (2 * r = d /\ q % 2 = 1) THEN q + 1 ELSE q

\* Position(symbol, status=EMPTY)
PositionNew ==
  [status |-> "empty", total_quantity |-> 0, total_cost |-> 0,
   average_price |-> 0, grid_level |-> 0, realized_pnl |-> 0]

\* PositionManager.__init__; completed counts completed_orders by side
PositionManagerNew ==
  [position |-> PositionNew, pending_orders |-> [i \in PmIds |-> NoOrder],
   completed |-> [buy |-> 0, sell |-> 0], total_cycles |-> 0,
   successful_cycles |-> 0]

\* the last call of the position manager: its name, the order it was given
\* (side, status, filled quantity, fill price, cost), the realized PnL it
\* computed, the values position.status was given in turn, and the manager
\* before the call
PmCall(op, order, realized, statuses, pre) ==
  [op |-> op, order |-> order, realized |-> realized, statuses |-> statuses,
   pre |-> pre]

PmNoUpdate ==
  [id |-> 0, side |-> "none", status |-> "new", filled_quantity |-> 0,
   average_price |-> 0, cost |-> 0]

PmLastNone == PmCall("none", PmNoUpdate, 0, <<>>, PositionManagerNew)

\* What is recorded of the runner's buys when watch is set: buy_floor is the
\* lowest price at which a buy was submitted (the program keeps no price of
\* its buys), missed_add whether a tick that was due to add a grid level
\* gave no BUY.  When risk_watch is set: how many ticks acted on a should_stop
\* and on a should_pause of check_risk.
BuysNew(watch) ==
  [watch |-> watch, buy_floor |-> NoPrice, missed_add |-> FALSE,
   risk_watch |-> FALSE, risk_stops |-> 0, risk_pauses |-> 0]

RiskStopSeen(b) == IF b.risk_watch THEN [b EXCEPT !.risk_stops = @ + 1] ELSE b
RiskPauseSeen(b) == IF b.risk_watch THEN [b EXCEPT !.risk_pauses = @ + 1] ELSE b

(* ------------------ StrategyExecutor on its own: state ---------------- *)
\* the settings of __init__: grid_levels, multiplier, stop_loss (%)
GridLevels == 7
Multiplier == 2
StopLoss == -10
\* the most get_signal calls made in one behaviour
MaxSignals == 2

\* StrategySignal: amount is the notional the quantity of a BUY is computed
\* from (quantity = amount / price), quantity the quantity of a SELL;
\* NoLevel stands for grid_level None
NoLevel == -1
StrategySignal(action, amount, quantity, grid_level) ==
  [action |-> action, amount |-> amount, quantity |-> quantity,
   grid_level |-> grid_level]
HoldSignal == StrategySignal("HOLD", 0, 0, NoLevel)

\* StrategyExecutor.__init__; initialize() of 'dantaro' adds grid_amounts,
\* which is a function of the settings (GridAmount below)
StrategyExecutorNew == [recent_signals |-> <<>>, trend |-> "none"]

\* no get_signal call made yet
SeLastNone ==
  [called |-> FALSE, price |-> 0,
   position |-> [grid_level |-> 0, average_price |-> 0, last_buy_price |-> 0,
                 total_quantity |-> 0, floats |-> FALSE],
   signal |-> HoldSignal, raised |-> FALSE]

\* no initialize() followed step by step yet.  config: BotRunner.config;
\* client: the exchange client the runner ends with; client_failed, failed,
\* ticker_failed: _initialize_exchange_client, _initialize_components and
\* _setup_initial_state ran into an exception
BootNone ==
  [called |-> FALSE,
   config |-> [exchange |-> "okx", strategy |-> "dantaro",
               strategy_settings |-> {}, risk_settings_ok |-> TRUE],
   ticker |-> "none", client |-> "none", client_failed |-> FALSE,
   failed |-> "none", ticker_failed |-> FALSE, raised |-> FALSE]

UnitsNew ==
  /\ ex = ExecutorNew
  /\ exLast = ExLastNone
  /\ pm = PositionManagerNew
  /\ pmLast = PmLastNone
  /\ buys = BuysNew(FALSE)
  /\ se = StrategyExecutorNew
  /\ seLast = SeLastNone
  /\ boot = BootNone
  /\ tickPc = "top"

(* ----------------------------- BotRunner ------------------------------ *)
ObsNew ==
  [emergency_stops |-> 0, liq_sells |-> 0, liq_qty |-> 0, error_stop |-> FALSE,
   consec |-> 0, stale_signal |-> FALSE, paused_graceful_tick |-> FALSE]

\* BotRunner.__init__ with its components as _initialize_components builds them
RunnerNew ==
  /\ state = "idle"
  /\ stop_requested = FALSE
  /\ graceful_stop_requested = FALSE
  /\ paused = FALSE
  /\ running = FALSE
  /\ tick_count = 0
  /\ error_count = 0
  /\ last_price = NoPrice
  /\ total_profit = 0
  /\ runPc = "new"
  /\ mainPc = "idle"
  /\ hbPc = "idle"
  /\ pricePc = "idle"
  /\ position = EmptyPosition
  /\ orders = <<>>
  /\ obs = ObsNew

\* initialize(): the exchange client falls back to the dummy client and the
\* initial ticker is best effort; only building the components can fail
\* (cfgOk = FALSE: a strategy setting is missing)
Initialize ==
  /\ runPc = "new"
  /\ \E cfgOk \in BOOLEAN, tk \in TickerAnswers :
       IF cfgOk
       THEN /\ state' = "idle"
            /\ runPc' = "ready"
            /\ last_price' = IF tk.kind = "ticker" THEN tk.last ELSE last_price
       ELSE /\ state' = "error"
            /\ runPc' = "failed"
            /\ UNCHANGED last_price
  /\ UNCHANGED <<stop_requested, graceful_stop_requested, paused, running,
                 tick_count, error_count, total_profit, mainPc, hbPc, pricePc,
                 position, orders, obs, rm>>
  /\ UNCHANGED outside

\* run() up to the gather: the three loops are created as tasks
RunBegin ==
  /\ runPc = "ready"
  /\ state' = "running"
  /\ running' = TRUE
  /\ runPc' = "gather"
  /\ mainPc' = "loop"
  /\ hbPc' = "loop"
  /\ pricePc' = "loop"
  /\ UNCHANGED <<stop_requested, graceful_stop_requested, paused, tick_count,
                 error_count, last_price, total_profit, position, orders, obs, rm>>
  /\ UNCHANGED outside

\* _emergency_stop: _close_all_positions, then the stop flag and state ERROR
EmergencyStop(byErrors) ==
  \E cancels \in CancelChoices(orders), answer \in SubmitChoices(orders) :
    LET c == CloseAllPositions(orders, position, cancels, answer)
    IN /\ orders' = c.orders
       /\ stop_requested' = TRUE
       /\ state' = "error"
       /\ obs' = [obs EXCEPT !.emergency_stops = @ + 1,
                             !.liq_sells = IF c.sold THEN @ + 1 ELSE @,
                             !.liq_qty = IF c.sold THEN position.total_quantity ELSE @,
                             !.error_stop = @ \/ byErrors,
                             !.consec = IF byErrors THEN @ + 1 ELSE @]

\* a tick that ends at a 'continue' without touching anything
TickIdle ==
  /\ obs' = [obs EXCEPT !.paused_graceful_tick =
                          @ \/ (paused /\ graceful_stop_requested
                                /\ ~HasOpenPosition(position))]
  /\ UNCHANGED <<state, stop_requested, graceful_stop_requested, paused, running,
                 error_count, last_price, total_profit, runPc, mainPc, hbPc,
                 pricePc, position, orders, rm, buys>>

\* the graceful-stop 'break'
TickBreak ==
  /\ mainPc' = "done"
  /\ UNCHANGED <<state, stop_requested, graceful_stop_requested, paused, running,
                 error_count, last_price, total_profit, runPc, hbPc, pricePc,
                 position, orders, rm, obs, buys>>

\* the ticker's 'last' does not convert: the tick's except clause
TickFailed ==
  /\ error_count' = error_count + 1
  /\ IF error_count + 1 >= ErrorLimit
     THEN EmergencyStop(TRUE) /\ mainPc' = "done"
     ELSE /\ obs' = [obs EXCEPT !.consec = @ + 1]
          /\ UNCHANGED <<state, stop_requested, orders, mainPc>>
  /\ UNCHANGED <<graceful_stop_requested, paused, running, last_price,
                 total_profit, runPc, hbPc, pricePc, position, rm, buys>>

\* _should_add_position's drop_threshold (%)
DropThreshold == 2

\* The tick's price is at least DropThreshold percent below the price of
\* every buy the bot has made, the last one included, while the position is
\* Holding below the highest grid level.  The average price lies among those
\* prices, so the take-profit condition does not hold.
AddLevelDue(price) ==
  /\ position.status = "holding"
  /\ position.grid_level >= 1
  /\ position.grid_level < MaxGridLevel
  /\ price > 0
  /\ buys.buy_floor > 0
  /\ (buys.buy_floor - price) * 100 >= DropThreshold * buys.buy_floor
  /\ ~ShouldTakeProfit(price, buys.buy_floor)

\* the lowest price at which a buy was submitted, after one more at price
BuyFloorWith(price) ==
  IF buys.buy_floor = NoPrice \/ price < buys.buy_floor THEN price ELSE buys.buy_floor

\* steps 3 to 6 of a tick: get_signal, the order for the signal or the poll
\* of the pending orders, update_position and _update_performance (both
\* only recompute the unrealized profit).  r is the RiskManager after step 2.
TickSignal(price, r) ==
  /\ IF GetSignal(price, position) = "BUY"
     THEN \E answer \in SubmitChoices(orders) :
            LET c == CreateMarketOrder(orders, "buy", answer)
            IN /\ IF c.order = 0
                  THEN UNCHANGED <<orders, position>>
                  ELSE /\ orders' = [c.orders EXCEPT ![c.order].pending = TRUE]
                       /\ position' = AddBuyOrder(position)
               /\ rm' = r
               /\ UNCHANGED total_profit
     ELSE IF GetSignal(price, position) = "SELL"
     THEN \E answer \in SubmitChoices(orders) :
            LET c == CreateMarketOrder(orders, "sell", answer)
            IN /\ IF c.order = 0
                  THEN UNCHANGED <<orders, position>>
                  ELSE /\ orders' = [c.orders EXCEPT ![c.order].pending = TRUE]
                       /\ position' = AddSellOrder(position, position.total_quantity)
               /\ rm' = r
               /\ UNCHANGED total_profit
     ELSE \E polls \in PollChoices(orders) :
            LET u == UpdateOrders(orders, position, total_profit, r, polls)
            IN /\ orders' = u.orders
               /\ position' = u.position
               /\ total_profit' = u.total_profit
               /\ rm' = u.rm
  /\ obs' = [obs EXCEPT !.consec = 0,
                        !.stale_signal =
                           @ \/ \E i \in DOMAIN orders :
                                  orders[i].pending /\ orders[i].exch = "filled"]
  /\ buys' = IF ~buys.watch THEN buys
             ELSE [buys EXCEPT
                     !.buy_floor =
                        IF GetSignal(price, position) = "BUY"
                           /\ Len(orders') > Len(orders)
                        THEN BuyFloorWith(price) ELSE @,
                     !.missed_add =
                        @ \/ (AddLevelDue(price)
                              /\ GetSignal(price, position) # "BUY")]
  /\ UNCHANGED <<state, stop_requested, graceful_stop_requested, paused, running,
                 error_count, runPc, mainPc, hbPc, pricePc>>

\* a tick that takes a should_pause for a warning: it pauses, and goes on to
\* buy
TickTradeBuysOnPause(price) ==
  /\ last_price' = price
  /\ \E hourElapsed \in HourChoices(rm), dayChanged \in DayChoices(rm) :
       LET chk == CheckRisk(rm, price, position, total_profit, hourElapsed, dayChanged)
       IN IF chk.result.should_stop
          THEN /\ EmergencyStop(FALSE)
               /\ mainPc' = "done"
               /\ rm' = chk.rm
               /\ buys' = RiskStopSeen(buys)
               /\ UNCHANGED <<graceful_stop_requested, paused, running, error_count,
                              total_profit, runPc, hbPc, pricePc, position>>
          ELSE IF chk.result.should_pause
          THEN /\ paused' = TRUE
               /\ state' = "paused"
               /\ rm' = chk.rm
               /\ buys' = RiskPauseSeen(buys)
               /\ orders' = CreateMarketOrder(orders, "buy", "open").orders
               /\ UNCHANGED <<stop_requested, graceful_stop_requested, running,
                              error_count, total_profit, runPc, mainPc, hbPc,
                              pricePc, position, obs>>
          ELSE TickSignal(price, chk.rm)

\* a tick that got a price: check_risk and the reaction to its result
\* (RiskManager never sets should_close_position)
TickTrade(price) ==
  /\ last_price' = price
  /\ \E hourElapsed \in HourChoices(rm), dayChanged \in DayChoices(rm) :
       LET chk == CheckRisk(rm, price, position, total_profit, hourElapsed, dayChanged)
       IN IF chk.result.should_stop
          THEN /\ EmergencyStop(FALSE)
               /\ mainPc' = "done"
               /\ rm' = chk.rm
               /\ buys' = RiskStopSeen(buys)
               /\ UNCHANGED <<graceful_stop_requested, paused, running, error_count,
                              total_profit, runPc, hbPc, pricePc, position>>
          ELSE IF chk.result.should_pause
          THEN /\ paused' = TRUE
               /\ state' = "paused"
               /\ rm' = chk.rm
               /\ buys' = RiskPauseSeen(buys)
               /\ UNCHANGED <<stop_requested, graceful_stop_requested, running,
                              error_count, total_profit, runPc, mainPc, hbPc,
                              pricePc, position, orders, obs>>
          ELSE TickSignal(price, chk.rm)

\* one iteration of _main_trading_loop
Tick ==
  /\ mainPc = "loop"
  /\ ~stop_requested
  /\ tick_count < MaxTicks
  /\ tick_count' = tick_count + 1
  /\ IF paused THEN TickIdle
     ELSE IF graceful_stop_requested /\ ~HasOpenPosition(position) THEN TickBreak
     ELSE \E tk \in TickerAnswers :
            IF tk.kind = "none" THEN TickIdle
            ELSE IF tk.kind = "bad" THEN TickFailed
            ELSE TickTrade(tk.last)
  /\ UNCHANGED tickOutside

\* the loop conditions seen TRUE: the loop's coroutine ends
MainLoopExit ==
  /\ mainPc = "loop"
  /\ stop_requested
  /\ mainPc' = "done"
  /\ UNCHANGED <<state, stop_requested, graceful_stop_requested, paused, running,
                 tick_count, error_count, last_price, total_profit, runPc, hbPc,
                 pricePc, position, orders, obs, rm>>
  /\ UNCHANGED outside

\* _heartbeat_loop: an iteration saves nothing yet; it ends on the stop flag
HeartbeatLoop ==
  /\ hbPc = "loop"
  /\ hbPc' = IF stop_requested THEN "done" ELSE "loop"
  /\ UNCHANGED <<state, stop_requested, graceful_stop_requested, paused, running,
                 tick_count, error_count, last_price, total_profit, runPc, mainPc,
                 pricePc, position, orders, obs, rm>>
  /\ UNCHANGED outside

\* _price_update_loop
PriceUpdateLoop ==
  /\ pricePc = "loop"
  /\ IF stop_requested
     THEN pricePc' = "done" /\ UNCHANGED last_price
     ELSE /\ \E tk \in TickerAnswers :
               last_price' = IF tk.kind = "ticker" THEN tk.last ELSE last_price
          /\ UNCHANGED pricePc
  /\ UNCHANGED <<state, stop_requested, graceful_stop_requested, paused, running,
                 tick_count, error_count, total_profit, runPc, mainPc, hbPc,
                 position, orders, obs, rm>>
  /\ UNCHANGED outside

\* run() after the gather: _cleanup_tasks finds the three tasks done, then
\* the finally clause and _final_cleanup (the components drop their orders)
RunFinish ==
  /\ runPc = "gather"
  /\ mainPc = "done" /\ hbPc = "done" /\ pricePc = "done"
  /\ runPc' = "returned"
  /\ running' = FALSE
  /\ state' = IF state = "error" THEN "error" ELSE "stopped"
  /\ orders' = [i \in DOMAIN orders |-> [orders[i] EXCEPT !.active = FALSE, !.pending = FALSE]]
  /\ UNCHANGED <<stop_requested, graceful_stop_requested, paused, tick_count,
                 error_count, last_price, total_profit, mainPc, hbPc, pricePc,
                 position, obs, rm>>
  /\ UNCHANGED outside

\* a stop() that would cancel the open orders itself
StopCancelsOrders ==
  /\ runPc \in {"ready", "gather"}
  /\ stop_requested' = TRUE
  /\ orders' = CancelAllOrders(orders, [i \in DOMAIN orders |->
                                          orders[i].active /\ orders[i].exch = "open"])
  /\ UNCHANGED <<state, graceful_stop_requested, paused, running, tick_count,
                 error_count, last_price, total_profit, runPc, mainPc, hbPc,
                 pricePc, position, obs, rm>>
  /\ UNCHANGED outside

\* the external control methods
Stop ==
  /\ runPc \in {"ready", "gather"}
  /\ stop_requested' = TRUE
  /\ UNCHANGED <<state, graceful_stop_requested, paused, running, tick_count,
                 error_count, last_price, total_profit, runPc, mainPc, hbPc,
                 pricePc, position, orders, obs, rm>>
  /\ UNCHANGED outside

RequestGracefulStop ==
  /\ runPc \in {"ready", "gather"}
  /\ graceful_stop_requested' = TRUE
  /\ UNCHANGED <<state, stop_requested, paused, running, tick_count,
                 error_count, last_price, total_profit, runPc, mainPc, hbPc,
                 pricePc, position, orders, obs, rm>>
  /\ UNCHANGED outside

Pause ==
  /\ runPc \in {"ready", "gather"}
  /\ paused' = TRUE
  /\ state' = "paused"
  /\ UNCHANGED <<stop_requested, graceful_stop_requested, running, tick_count,
                 error_count, last_price, total_profit, runPc, mainPc, hbPc,
                 pricePc, position, orders, obs, rm>>
  /\ UNCHANGED outside

Resume ==
  /\ runPc \in {"ready", "gather"}
  /\ paused' = FALSE
  /\ state' = "running"
  /\ UNCHANGED <<stop_requested, graceful_stop_requested, running, tick_count,
                 error_count, last_price, total_profit, runPc, mainPc, hbPc,
                 pricePc, position, orders, obs, rm>>
  /\ UNCHANGED outside

\* the exchange executes an order it holds
ExchangeFill ==
  /\ \E i \in DOMAIN orders :
       /\ orders[i].exch = "open"
       /\ orders' = [orders EXCEPT ![i].exch = "filled"]
  /\ UNCHANGED <<state, stop_requested, graceful_stop_requested, paused, running,
                 tick_count, error_count, last_price, total_profit, runPc, mainPc,
                 hbPc, pricePc, position, obs, rm>>
  /\ UNCHANGED outside

\* the record of the last check_risk call: its arguments, the RiskManager
\* the rules saw (pre: after _reset_time_counters), the one it left (post)
\* and the result
LastCheckNone ==
  [called |-> FALSE, hour_elapsed |-> FALSE, daily_pnl |-> 0, total_profit |-> 0,
   result |-> RiskResult(FALSE, FALSE, FALSE, "LOW", "none"), recorded |-> 0,
   price |-> 0, cost |-> 0,
   pre |-> RiskManagerNew(VolatilityThreshold),
   post |-> RiskManagerNew(VolatilityThreshold)]

InitRunner ==
  /\ RunnerNew
  /\ LMNew
  /\ lastCheck = LastCheckNone
  /\ UnitsNew
  /\ \E threshold \in VolatilitySettings : rm = RiskManagerNew(threshold)

NextRunner ==
  \/ Initialize
  \/ RunBegin
  \/ Tick
  \/ MainLoopExit
  \/ HeartbeatLoop
  \/ PriceUpdateLoop
  \/ RunFinish
  \/ Stop
  \/ RequestGracefulStop
  \/ Pause
  \/ Resume
  \/ ExchangeFill

SpecRunner == InitRunner /\ [][NextRunner]_vars

\* the same runner with its buys watched
InitWatched ==
  /\ RunnerNew
  /\ LMNew
  /\ lastCheck = LastCheckNone
  /\ ex = ExecutorNew
  /\ exLast = ExLastNone
  /\ pm = PositionManagerNew
  /\ pmLast = PmLastNone
  /\ buys = BuysNew(TRUE)
  /\ se = StrategyExecutorNew
  /\ seLast = SeLastNone
  /\ boot = BootNone
  /\ tickPc = "top"
  /\ \E threshold \in VolatilitySettings : rm = RiskManagerNew(threshold)

SpecWatched == InitWatched /\ [][NextRunner]_vars

(* ------------------------ properties: BotRunner ----------------------- *)
TypeOKRunner ==
  /\ state \in BotState
  /\ position.status \in PositionStatus
  /\ \A i \in DOMAIN orders : orders[i].status \in OrderStatus
  /\ tick_count \in 0..MaxTicks
  /\ Len(orders) <= MaxOrders

\* C1: the emergency stop for tick errors is triggered only when five
\* consecutive ticks have failed: when it was triggered by the error counter,
\* the last ErrorLimit ticks that ran to their end or failed all failed
C1_StopOnlyAfterConsecutiveFailures ==
  obs.error_stop => obs.consec >= ErrorLimit

\* C2: get_signal is never evaluated on a position that omits an order which
\* was submitted on an earlier tick and is already filled at the exchange
C2_SignalNeverOnStalePosition == ~obs.stale_signal

\* C4: a requested graceful stop is honored from Paused too: no tick of a
\* paused runner with a flat position and the graceful flag set leaves the
\* main loop running
C4_GracefulStopHonoredWhenPaused == ~obs.paused_graceful_tick

\* C5: the emergency stop runs at most once per run; after it the main loop
\* has exited and no tick runs any more, and exactly one liquidation market
\* sell was issued, for the held quantity, if a quantity is held and none
\* otherwise
C5_AfterEmergencyStop ==
  /\ obs.emergency_stops <= 1
  /\ obs.emergency_stops = 1 =>
       /\ mainPc = "done"
       /\ stop_requested
       /\ obs.liq_sells = IF position.total_quantity > 0 THEN 1 ELSE 0
       /\ obs.liq_sells = 1 => obs.liq_qty = position.total_quantity
  /\ obs.emergency_stops = 0 => obs.liq_sells = 0

C5_NoTickAfterEmergencyStop ==
  obs.emergency_stops >= 1 =>
    /\ tick_count' = tick_count
    /\ obs'.emergency_stops = obs.emergency_stops
    /\ obs'.liq_sells = obs.liq_sells

C5_EmergencyStopOnce ==
  []C5_AfterEmergencyStop /\ [][C5_NoTickAfterEmergencyStop]_vars

\* the run ended by an emergency stop that liquidated a held quantity
C5_Witness ==
  /\ obs.emergency_stops = 1
  /\ obs.liq_sells = 1
  /\ position.total_quantity > 0
  /\ runPc = "returned"

(* ------------------- RiskManager on drawn arguments ------------------- *)
TradeProfits == {-30, 30}
TotalProfits == {-150, -140, 100}
PositionCosts == {0, 900}
\* the counters of a manager that has recorded trades before: none, one
\* short of the hourly limit, and one short of both limits
RecordedCounts ==
  {<<0, 0>>, <<MaxTradesPerHour - 1, MaxTradesPerHour - 1>>,
   <<MaxTradesPerHour - 1, MaxTradesPerDay - 1>>}

\* check_risk(current_price, position, total_profit) at some time of day,
\* the price drawn from prices
RiskCheckAt(prices) ==
  /\ \E price \in prices, cost \in PositionCosts, profit \in TotalProfits,
        hourElapsed \in BOOLEAN, dayChanged \in BOOLEAN :
       LET pos == [EmptyPosition EXCEPT !.total_cost = cost]
           chk == CheckRisk(rm, price, pos, profit, hourElapsed, dayChanged)
       IN /\ rm' = chk.rm
          /\ lastCheck' = [called |-> TRUE, hour_elapsed |-> hourElapsed,
                           daily_pnl |-> ResetTimeCounters(rm, hourElapsed, dayChanged).daily_pnl,
                           total_profit |-> profit,
                           result |-> chk.result,
                           recorded |-> lastCheck.recorded,
                           price |-> price, cost |-> cost,
                           pre |-> ResetTimeCounters(rm, hourElapsed, dayChanged),
                           post |-> chk.rm]
  /\ UNCHANGED <<runnerVars, lmVars, unitVars>>

RiskCheck == RiskCheckAt(Prices)

\* record_trade(profit)
RiskRecordTrade ==
  /\ lastCheck.recorded < MaxRecorded
  /\ \E profit \in TradeProfits : rm' = RecordTrade(rm, profit)
  /\ lastCheck' = [lastCheck EXCEPT !.recorded = @ + 1]
  /\ UNCHANGED <<runnerVars, lmVars, unitVars>>

InitRisk ==
  /\ RunnerNew
  /\ LMNew
  /\ lastCheck = LastCheckNone
  /\ UnitsNew
  /\ \E threshold \in {VolatilityThreshold}, counts \in RecordedCounts,
        pnl \in {0} \cup TradeProfits :
       /\ counts[2] = 0 => pnl = 0
       /\ rm = [RiskManagerNew(threshold) EXCEPT !.trade_count_hour = counts[1],
                                              !.trade_count_day = counts[2],
                                              !.daily_pnl = pnl]

NextRisk ==
  \/ RiskCheck
  \/ RiskRecordTrade

SpecRisk == InitRisk /\ [][NextRisk]_vars

\* C10: whenever the daily loss ratio is at or below daily_loss_limit and the
\* total-loss rule is not breached, check_risk returns should_pause = TRUE
\* with severity HIGH
C10_DailyLossPauses ==
  (/\ lastCheck.called
   /\ lastCheck.daily_pnl * 100 <= DailyLossLimit * Capital
   /\ ~(lastCheck.total_profit * 100 <= MaxLossPercentage * Capital))
  => (lastCheck.result.should_pause /\ lastCheck.result.severity = "HIGH")

\* the rule the fixed order total loss, daily loss, position size, hourly
\* and daily trade caps, volatility, drawdown names first for the last call
FirstBreachedRule ==
  LET r == lastCheck.pre
      profit == lastCheck.total_profit
  IN IF profit * 100 <= MaxLossPercentage * Capital THEN "total_loss"
     ELSE IF r.daily_pnl * 100 <= DailyLossLimit * Capital THEN "daily_loss"
     ELSE IF lastCheck.cost * 100 > MaxPositionSize * Capital THEN "position_size"
     ELSE IF r.trade_count_hour >= MaxTradesPerHour THEN "trades_hour"
     ELSE IF r.trade_count_day >= MaxTradesPerDay THEN "trades_day"
     ELSE IF VolatilityBreached(r, lastCheck.price) THEN "volatility"
     ELSE IF DrawdownBreached(r, profit) THEN "drawdown"
     ELSE "passed"

\* C11: check_risk returns the result of the first breached rule in the
\* fixed order, and the neutral passed result when no rule is breached
C11_FirstBreachWins ==
  lastCheck.called => lastCheck.result.rule = FirstBreachedRule

\* C12: apart from the reset of the elapsed time windows check_risk changes
\* no state of the RiskManager
C12_CheckRiskOnlyResets ==
  lastCheck.called => lastCheck.post = lastCheck.pre

(* ------------------- BotLifecycleManager: handlers -------------------- *)
\* the public methods of BotRunner
BotRunnerMethods ==
  {"initialize", "run", "stop", "request_graceful_stop", "pause", "resume",
   "is_running", "get_status", "get_performance"}

\* (a Persist whose UPDATE has no WHERE clause)
PersistEveryRow(b, status, message) ==
  [x \in Bots |-> [status |-> status, error_message |-> message]]

Persist(b, status, message) ==
  [db EXCEPT ![b] = [status |-> status, error_message |-> message]]

PersistStatus(b, status) == [db EXCEPT ![b].status = status]

Startable(b) ==
  /\ b \notin running_bots
  /\ db[b].status \in {"created", "stopped", "error"}

\* start(): _recover_running_bots, then the monitor task is created
ManagerStart ==
  /\ monitor = "new"
  /\ db' = [b \in Bots |->
              IF db[b].status = "running"
              THEN [status |-> "stopped", error_message |-> "server restart"]
              ELSE db[b]]
  /\ monitor' = "on"
  /\ reply' = NoReply
  /\ UNCHANGED <<running_bots, context, task, now, runnerVars, riskVars, unitVars>>

\* _start_bot.  keysOk: the user has API keys for the exchange; cfgOk: the
\* bot's settings let BotRunner.initialize() build its components.  The
\* constructor is called with StartCtorArgs arguments.
StartBot(b) ==
  \E keysOk \in BOOLEAN, cfgOk \in BOOLEAN :
    /\ reply' = [Reply("start", b, FALSE, b \in running_bots,
                       Startable(b) /\ keysOk, FALSE)
                   EXCEPT !.success = Startable(b) /\ keysOk /\ cfgOk
                                      /\ StartCtorArgs = RunnerCtorArity,
                          !.fault = ~cfgOk]
    /\ IF ~(Startable(b) /\ keysOk)
       THEN UNCHANGED <<running_bots, context, task, db>>
       ELSE IF StartCtorArgs # RunnerCtorArity
       THEN /\ db' = Persist(b, "error", "TypeError")
            /\ UNCHANGED <<running_bots, context, task>>
       ELSE IF ~cfgOk
       THEN /\ db' = Persist(b, "error", "init failed")
            /\ UNCHANGED <<running_bots, context, task>>
       ELSE /\ running_bots' = running_bots \cup {b}
            /\ context' = [context EXCEPT ![b] = ContextNew(now)]
            /\ db' = Persist(b, "running", "none")
            /\ task' = [task EXCEPT ![b] = "scheduled"]
    /\ UNCHANGED <<now, monitor, runnerVars, riskVars, unitVars>>

\* lines 144-147 of _start_bot for a runner as create_bot_runner builds it
\* (the constructor call of _start_bot itself never returns one): the context
\* enters the registry; the handler then waits for the database
RegisterRunner(b) ==
  /\ Startable(b)
  /\ task[b] \in {"none", "finished"}
  /\ running_bots' = running_bots \cup {b}
  /\ context' = [context EXCEPT ![b] = ContextNew(now)]
  /\ task' = [task EXCEPT ![b] = "starting"]
  /\ reply' = NoReply
  /\ UNCHANGED <<db, now, monitor, runnerVars, riskVars, unitVars>>

\* lines 149-165 of _start_bot: status RUNNING is persisted, _run_bot is
\* scheduled as a task and the handler answers
PersistRunning(b) ==
  /\ task[b] = "starting"
  /\ db' = Persist(b, "running", "none")
  /\ task' = [task EXCEPT ![b] = "scheduled"]
  /\ reply' = Reply("register", b, TRUE, FALSE, TRUE, FALSE)
  /\ UNCHANGED <<running_bots, context, now, monitor, runnerVars, riskVars, unitVars>>

\* _stop_bot: asks the runner for has_open_position()
StopBot(b) ==
  /\ IF b \notin running_bots
     THEN /\ reply' = Reply("stop", b, FALSE, FALSE, FALSE, FALSE)
          /\ UNCHANGED <<running_bots, context, db>>
     ELSE IF "has_open_position" \notin BotRunnerMethods
     THEN /\ reply' = Reply("stop", b, FALSE, TRUE, FALSE, context[b].open)
          /\ UNCHANGED <<running_bots, context, db>>
     ELSE IF context[b].open
     THEN /\ context' = [context EXCEPT ![b].graceful_stop_requested = TRUE]
          /\ db' = PersistStatus(b, "stopping")
          /\ reply' = Reply("stop", b, TRUE, TRUE, FALSE, TRUE)
          /\ UNCHANGED running_bots
     ELSE /\ context' = [context EXCEPT ![b].stop_requested = TRUE]
          /\ running_bots' = running_bots \ {b}
          /\ db' = PersistStatus(b, "stopped")
          /\ reply' = Reply("stop", b, TRUE, TRUE, FALSE, FALSE)
  /\ UNCHANGED <<task, now, monitor, runnerVars, riskVars, unitVars>>

\* _force_stop_bot: asks the runner for force_close_all_positions()
ForceStopBot(b) ==
  /\ IF b \notin running_bots
     THEN /\ reply' = Reply("force_stop", b, FALSE, FALSE, FALSE, FALSE)
          /\ UNCHANGED <<running_bots, context, db>>
     ELSE IF "force_close_all_positions" \notin BotRunnerMethods
     THEN /\ reply' = Reply("force_stop", b, FALSE, TRUE, FALSE, context[b].open)
          /\ UNCHANGED <<running_bots, context, db>>
     ELSE /\ context' = [context EXCEPT ![b].open = FALSE, ![b].stop_requested = TRUE]
          /\ running_bots' = running_bots \ {b}
          /\ db' = Persist(b, "stopped", "forced by user")
          /\ reply' = Reply("force_stop", b, TRUE, TRUE, FALSE, context[b].open)
  /\ UNCHANGED <<task, now, monitor, runnerVars, riskVars, unitVars>>

\* _pause_bot
PauseBot(b) ==
  /\ IF b \notin running_bots
     THEN /\ reply' = Reply("pause", b, FALSE, FALSE, FALSE, FALSE)
          /\ UNCHANGED <<context, db>>
     ELSE /\ context' = [context EXCEPT ![b].paused = TRUE]
          /\ db' = PersistStatus(b, "paused")
          /\ reply' = Reply("pause", b, TRUE, TRUE, FALSE, FALSE)
  /\ UNCHANGED <<running_bots, task, now, monitor, runnerVars, riskVars, unitVars>>

\* _resume_bot
ResumeBot(b) ==
  /\ IF b \notin running_bots
     THEN /\ reply' = Reply("resume", b, FALSE, FALSE, FALSE, FALSE)
          /\ UNCHANGED <<context, db>>
     ELSE /\ context' = [context EXCEPT ![b].paused = FALSE]
          /\ db' = PersistStatus(b, "running")
          /\ reply' = Reply("resume", b, TRUE, TRUE, FALSE, FALSE)
  /\ UNCHANGED <<running_bots, task, now, monitor, runnerVars, riskVars, unitVars>>

\* the task of _run_bot begins: run() marks the runner running and starts
\* its loops
RunTaskBegin(b) ==
  /\ task[b] = "scheduled"
  /\ task' = [task EXCEPT ![b] = "running"]
  /\ context' = [context EXCEPT ![b].running = TRUE]
  /\ reply' = NoReply
  /\ UNCHANGED <<running_bots, db, now, monitor, runnerVars, riskVars, unitVars>>

\* what a tick of the runner's main loop can do to the fields the manager
\* looks at: submit a buy (the position opens), pause for a risk rule, or
\* stop in emergency.  A paused tick does nothing, and neither does a tick
\* that finds the graceful flag and a flat position: the main loop ends there.
RunnerTicks == {"buy", "risk_pause", "emergency"}

RunnerTick(b) ==
  /\ task[b] = "running"
  /\ ~context[b].stop_requested
  /\ ~context[b].paused
  /\ ~(context[b].graceful_stop_requested /\ ~context[b].open)
  /\ \E t \in RunnerTicks :
       context' =
         IF t = "buy" THEN [context EXCEPT ![b].open = TRUE]
         ELSE IF t = "risk_pause" THEN [context EXCEPT ![b].paused = TRUE]
         ELSE [context EXCEPT ![b].stop_requested = TRUE]
  /\ reply' = NoReply
  /\ UNCHANGED <<running_bots, task, db, now, monitor, runnerVars, riskVars, unitVars>>

\* the three loops have seen the stop flag: run() returns and the finally
\* clause of _run_bot drops the bot's key from the registry
RunTaskEnd(b) ==
  /\ task[b] = "running"
  /\ context[b].stop_requested
  /\ context' = [context EXCEPT ![b].running = FALSE]
  /\ running_bots' = running_bots \ {b}
  /\ task' = [task EXCEPT ![b] = "finished"]
  /\ reply' = NoReply
  /\ UNCHANGED <<db, now, monitor, runnerVars, riskVars, unitVars>>

\* one sweep of _monitor_bots with _cleanup_dead_bot for every dead entry
DeadBots ==
  {b \in running_bots :
     \/ now - context[b].last_heartbeat > StaleThreshold
     \/ ~context[b].running}

MonitorSweep ==
  /\ monitor = "on"
  /\ db' = [b \in Bots |->
              IF b \in DeadBots
              THEN [status |-> "error", error_message |-> "timeout"]
              ELSE db[b]]
  /\ running_bots' = running_bots \ DeadBots
  /\ reply' = [Reply("sweep", 0, TRUE, FALSE, FALSE, FALSE)
                 EXCEPT !.removed = DeadBots,
                        !.due = {b \in running_bots :
                                   \/ now - context[b].last_heartbeat > StaleThreshold
                                   \/ task[b] = "finished"}]
  /\ UNCHANGED <<context, task, now, monitor, runnerVars, riskVars, unitVars>>

\* stop() of the manager: _emergency_stop_bot for every key, then the
\* monitor task is cancelled
ManagerStop ==
  /\ monitor = "on"
  /\ context' = [b \in Bots |->
                   IF b \in running_bots
                   THEN [context[b] EXCEPT !.stop_requested = TRUE]
                   ELSE context[b]]
  /\ running_bots' = {}
  /\ monitor' = "off"
  /\ reply' = NoReply
  /\ UNCHANGED <<task, db, now, runnerVars, riskVars, unitVars>>

\* time passes
ClockStep == StaleThreshold + 1

AdvanceClock ==
  /\ now + ClockStep <= MaxClock
  /\ now' = now + ClockStep
  /\ reply' = NoReply
  /\ UNCHANGED <<running_bots, context, task, db, monitor, runnerVars, riskVars, unitVars>>

InitLM ==
  /\ RunnerNew
  /\ LMInit
  /\ lastCheck = LastCheckNone
  /\ UnitsNew
  /\ rm = RiskManagerNew(VolatilityThreshold)

\* The application calls start() before it serves requests and stop() when
\* it shuts down: the handlers are called while the monitor is on.
NextLM ==
  \/ ManagerStart
  \/ ManagerStop
  \/ MonitorSweep
  \/ AdvanceClock
  \/ \E b \in Bots : monitor = "on" /\ StartBot(b)
  \/ \E b \in Bots : monitor = "on" /\ RegisterRunner(b)
  \/ \E b \in Bots : PersistRunning(b)
  \/ \E b \in Bots : monitor = "on" /\ StopBot(b)
  \/ \E b \in Bots : monitor = "on" /\ ForceStopBot(b)
  \/ \E b \in Bots : monitor = "on" /\ PauseBot(b)
  \/ \E b \in Bots : monitor = "on" /\ ResumeBot(b)
  \/ \E b \in Bots : RunTaskBegin(b)
  \/ \E b \in Bots : RunnerTick(b)
  \/ \E b \in Bots : RunTaskEnd(b)

SpecLM == InitLM /\ [][NextLM]_vars

(* ------------------- properties: BotLifecycleManager ------------------ *)
\* C3: a bot never silently disappears: no bot whose runner task has ended
\* and which is absent from the registry has a persisted status that is
\* still RUNNING, PAUSED or STOPPING
C3_NeverSilentlyGone ==
  \A b \in Bots :
    (task[b] = "finished" /\ b \notin running_bots)
      => db[b].status \notin {"running", "paused", "stopping"}

\* C6: Stop on a bot of the registry reports success; with an open position
\* it requests the graceful stop, keeps the bot and persists STOPPING,
\* otherwise it sets the stop flag, removes the bot and persists STOPPED
C6_StopOnRegisteredBot ==
  (reply.op = "stop" /\ reply.registered) =>
    /\ reply.success
    /\ IF reply.open
       THEN /\ reply.bot \in running_bots
            /\ context[reply.bot].graceful_stop_requested
            /\ db[reply.bot].status = "stopping"
       ELSE /\ reply.bot \notin running_bots
            /\ context[reply.bot].stop_requested
            /\ db[reply.bot].status = "stopped"

\* C7: ForceStop on a bot of the registry liquidates, sets the stop flag,
\* removes the bot and persists STOPPED, and reports success
C7_ForceStopOnRegisteredBot ==
  (reply.op = "force_stop" /\ reply.registered) =>
    /\ reply.success
    /\ reply.bot \notin running_bots
    /\ context[reply.bot].stop_requested
    /\ ~context[reply.bot].open
    /\ db[reply.bot].status = "stopped"

\* C8: a Start that passes the validation, for a runner whose initialize()
\* does not fail, registers the bot, persists RUNNING, schedules run() and
\* reports success
C8_ValidStartRegisters ==
  (reply.op = "start" /\ reply.valid /\ ~reply.fault) =>
    /\ reply.success
    /\ reply.bot \in running_bots
    /\ db[reply.bot].status = "running"
    /\ task[reply.bot] = "scheduled"

MaxRetries == 3
MaxSubmits == 3

\* one call of the exchange's create_market_order / create_limit_order: it
\* raises, returns nothing, or returns a record with this 'status'
AttemptAnswers == {"raise", "nothing", "open", "closed"}

\* _execute_exchange_order from attempt k on: a record ends the loop, an
\* exception is followed by the sleep unless it was the last attempt, and an
\* empty answer goes straight to the next attempt
RECURSIVE ExecuteExchangeOrderFrom(_, _, _)
ExecuteExchangeOrderFrom(answers, k, waits) ==
  IF k > MaxRetries
  THEN [result |-> "fail", attempts |-> MaxRetries, waits |-> waits]
  ELSE IF answers[k] \notin {"raise", "nothing"}
  THEN [result |-> answers[k], attempts |-> k, waits |-> waits]
  ELSE IF answers[k] = "raise"
  THEN ExecuteExchangeOrderFrom(answers, k + 1,
                                IF k < MaxRetries THEN waits + 1 ELSE waits)
  ELSE ExecuteExchangeOrderFrom(answers, k + 1, waits)

ExecuteExchangeOrder(answers) == ExecuteExchangeOrderFrom(answers, 1, 0)

\* the id the exchange gives to its next order (0: it takes no more)
ExNextId(e) ==
  IF \E i \in ExIds : e.exch[i] = "none"
  THEN CHOOSE i \in ExIds : e.exch[i] = "none" /\ \A j \in ExIds : j < i => e.exch[j] # "none"
  ELSE 0

\* create_market_order / create_limit_order after _execute_exchange_order
\* gave r: no record, or a record whose status OrderStatus() does not know,
\* counts a failure and returns None; otherwise the order enters
\* active_orders.  The exchange holds every order it answered with a record.
ExCreateOrder(e, r) ==
  LET id == ExNextId(e)
      held == [e EXCEPT !.exch[id] = IF r.result = "closed" THEN "filled" ELSE r.result]
  IN IF r.result = "fail"
     THEN [ex |-> [e EXCEPT !.failed_orders = @ + 1], returned |-> FALSE, id |-> 0]
     ELSE IF r.result \notin OrderStatus
     THEN [ex |-> [held EXCEPT !.failed_orders = @ + 1], returned |-> FALSE, id |-> id]
     ELSE [ex |-> [held EXCEPT !.info[id].status = r.result,
                               !.active_orders = @ \cup {id},
                               !.total_orders = @ + 1],
           returned |-> TRUE, id |-> id]

\* the filled quantity the exchange reports with a status
ExFilledOf(st) ==
  IF st = "filled" THEN 2 ELSE IF st = "partially_filled" THEN 1 ELSE 0

\* get_order_status that refreshes the order and leaves it where it is
ExGetOrderStatusNoMove(e, id, a) ==
  IF id \in e.active_orders /\ a \in OrderStatus
  THEN [ex |-> [e EXCEPT !.info[id] = [status |-> a, filled |-> ExFilledOf(a)]],
        returned |-> TRUE]
  ELSE [ex |-> e, returned |-> a = "none"]

\* get_order_status(id) on the exchange's answer a ("none": no record)
ExGetOrderStatus(e, id, a) ==
  IF id \in e.active_orders
  THEN IF a = "none" THEN [ex |-> e, returned |-> TRUE]
       ELSE IF a \notin OrderStatus THEN [ex |-> e, returned |-> FALSE]
       ELSE LET old == e.info[id].status
                upd == [e EXCEPT !.info[id] = [status |-> a, filled |-> ExFilledOf(a)]]
            IN IF IsCompleted(a) /\ old # a
               THEN [ex |-> [upd EXCEPT
                               !.active_orders = @ \ {id},
                               !.completed_orders = Append(@, id),
                               !.successful_orders = IF a = "filled" THEN @ + 1 ELSE @],
                     returned |-> TRUE]
               ELSE [ex |-> upd, returned |-> TRUE]
  ELSE [ex |-> e, returned |-> \E k \in DOMAIN e.completed_orders : e.completed_orders[k] = id]

\* cancel_order that forgets to take the order out of active_orders
ExCancelOrderKeepsActive(e, id, success) ==
  IF id \notin e.active_orders \/ ~success
  THEN [ex |-> e, returned |-> FALSE]
  ELSE [ex |-> [e EXCEPT !.info[id].status = "canceled",
                         !.completed_orders = Append(@, id)],
        returned |-> TRUE]

\* cancel_order(id) on the exchange's answer
ExCancelOrder(e, id, success) ==
  IF id \notin e.active_orders \/ ~success
  THEN [ex |-> e, returned |-> FALSE]
  ELSE [ex |-> [e EXCEPT !.info[id].status = "canceled",
                         !.active_orders = @ \ {id},
                         !.completed_orders = Append(@, id),
                         !.exch[id] = IF @ \in {"open", "partially_filled"}
                                      THEN "canceled" ELSE @],
        returned |-> TRUE]

\* cancel_all_orders: cancel_order for every key of active_orders, in order
RECURSIVE ExCancelAllFrom(_, _, _, _)
ExCancelAllFrom(e, ids, i, answers) ==
  IF i > MaxExOrders THEN e
  ELSE IF i \in ids
  THEN ExCancelAllFrom(ExCancelOrder(e, i, answers[i]).ex, ids, i + 1, answers)
  ELSE ExCancelAllFrom(e, ids, i + 1, answers)

ExCancelAllOrders(e, answers) == ExCancelAllFrom(e, e.active_orders, 1, answers)

\* what the exchange answers to a status query: nothing, what it holds, or
\* for an executed order the word 'closed'
ExPollAnswers(e, id) ==
  IF e.exch[id] = "none" THEN {"none"}
  ELSE {"none", e.exch[id]} \cup (IF e.exch[id] = "filled" THEN {"closed"} ELSE {})

\* what no call of the OrderExecutor touches
exOutside == <<runnerVars, riskVars, lmVars, pm, pmLast, buys, se, seLast, boot, tickPc>>

\* create_market_order or create_limit_order (they differ in the order type
\* sent to the exchange only)
ExCreate ==
  /\ ex.total_orders + ex.failed_orders < MaxSubmits
  /\ \E answers \in [1 .. MaxRetries -> AttemptAnswers] :
       LET r == ExecuteExchangeOrder(answers)
           c == ExCreateOrder(ex, r)
       IN /\ r.result # "fail" => ExNextId(ex) # 0
          /\ ex' = c.ex
          /\ exLast' = ExCall("create", c.id, r.attempts, r.waits, c.returned, ex)
  /\ UNCHANGED exOutside

\* get_order_status(id), for any id
ExPoll ==
  /\ \E id \in ExIds, a \in PollAnswers \cup {"partially_filled"} :
       /\ a \in ExPollAnswers(ex, id)
       /\ LET g == ExGetOrderStatus(ex, id, a)
          IN /\ ex' = g.ex
             /\ exLast' = ExCall("get", id, IF id \in ex.active_orders THEN 1 ELSE 0,
                                 0, g.returned, ex)
  /\ UNCHANGED exOutside

\* cancel_order(id), for any id
ExCancel ==
  /\ \E id \in ExIds, success \in BOOLEAN :
       LET c == ExCancelOrder(ex, id, success)
       IN /\ ex' = c.ex
          /\ exLast' = ExCall("cancel", id, IF id \in ex.active_orders THEN 1 ELSE 0,
                              0, c.returned, ex)
  /\ UNCHANGED exOutside

\* cancel_all_orders()
ExCancelAll ==
  /\ \E answers \in [ExIds -> BOOLEAN] :
       /\ ex' = ExCancelAllOrders(ex, answers)
       /\ exLast' = ExCall("cancel_all", 0, Cardinality(ex.active_orders), 0, TRUE, ex)
  /\ UNCHANGED exOutside

\* the exchange executes, partly or wholly, or cancels an order it holds
ExExchangeStep ==
  /\ \E id \in ExIds, to \in {"partially_filled", "filled", "canceled"} :
       /\ \/ ex.exch[id] = "open"
          \/ ex.exch[id] = "partially_filled" /\ to # "partially_filled"
       /\ ex' = [ex EXCEPT !.exch[id] = to]
       /\ exLast' = ExCall("exchange", id, 0, 0, FALSE, ex)
  /\ UNCHANGED exOutside

InitExec ==
  /\ RunnerNew
  /\ LMNew
  /\ lastCheck = LastCheckNone
  /\ UnitsNew
  /\ rm = RiskManagerNew(VolatilityThreshold)

NextExec ==
  \/ ExCreate
  \/ ExPoll
  \/ ExCancel
  \/ ExCancelAll
  \/ ExExchangeStep

SpecExec == InitExec /\ [][NextExec]_vars

(* ---------------------- properties: OrderExecutor --------------------- *)
ExCompletedIds(e) == {e.completed_orders[k] : k \in DOMAIN e.completed_orders}

ExTimesCompleted(e, id) ==
  Cardinality({k \in DOMAIN e.completed_orders : e.completed_orders[k] = id})

C14_BackoffBetweenAttempts ==
  exLast.op = "create" =>
    /\ exLast.attempts <= MaxRetries
    /\ exLast.waits = exLast.attempts - 1

\* the position of a status on New -> {Pending|Open} -> PartiallyFilled -> Filled
ExRank(st) ==
  IF st = "new" THEN 0
  ELSE IF st \in {"pending", "open"} THEN 1
  ELSE IF st = "partially_filled" THEN 2
  ELSE 3

ExActiveNonTerminal ==
  \A id \in ex.active_orders : ~IsCompleted(ex.info[id].status)

ExStatusStep ==
  \A id \in ExIds :
    LET old == ex.info[id].status
        new == ex'.info[id].status
    IN IF IsCompleted(old) THEN new = old
       ELSE \/ new = old
            \/ new \in {"canceled", "rejected", "expired"}
            \/ new \in {"pending", "open", "partially_filled", "filled"}
               /\ ExRank(new) > ExRank(old)

OrderQuantities == {1, 2}
FillPrices == {10, 11}
\* the statuses an update brings: "open" stands for every status that is
\* neither Filled nor Canceled/Rejected, "canceled" for both of these
UpdateStatuses == {"open", "filled", "canceled"}

\* an OrderInfo as update_status leaves it: a filled order carries its fill
\* price and cost = filled_quantity * avg_price
PmOrderUpdate(id, side, st, q, price) ==
  IF st = "filled"
  THEN [id |-> id, side |-> side, status |-> st, filled_quantity |-> q,
        average_price |-> price * MoneyScale, cost |-> q * price * MoneyScale]
  ELSE [id |-> id, side |-> side, status |-> st, filled_quantity |-> 0,
        average_price |-> 0, cost |-> 0]

\* update_average_price that leaves the average as it was
UpdateAveragePriceStale(pos) == pos

\* Position.update_average_price
UpdateAveragePrice(pos) ==
  [pos EXCEPT !.average_price =
     IF pos.total_quantity > 0 THEN DivRound(pos.total_cost, pos.total_quantity)
     ELSE 0]

\* _close_position that keeps the grid level
PmClosePositionKeepsLevel(pos) ==
  [pos EXCEPT !.status = "empty", !.total_quantity = 0, !.total_cost = 0,
              !.average_price = 0]

\* _close_position: the position after it (status CLOSED, then EMPTY after
\* the sleep); realized_pnl is kept
PmClosePosition(pos) ==
  [pos EXCEPT !.status = "empty", !.total_quantity = 0, !.total_cost = 0,
              !.average_price = 0, !.grid_level = 0]

\* _process_filled_order for a buy
PmProcessFilledBuy(m, u) ==
  LET added == [m.position EXCEPT !.total_quantity = @ + u.filled_quantity,
                                  !.total_cost = @ + u.cost]
      pos == [UpdateAveragePrice(added) EXCEPT !.grid_level = @ + 1,
                                               !.status = "holding"]
  IN [pm |-> [m EXCEPT !.position = pos], realized |-> 0,
      statuses |-> <<"holding">>]

\* _process_filled_order for a sell that counts a break-even cycle as a success
PmProcessFilledSellBreakEven(m, u) ==
  LET sold_quantity == u.filled_quantity
      realized_pnl == u.cost - m.position.average_price * sold_quantity
      left == m.position.total_quantity - sold_quantity
      pos == [m.position EXCEPT !.realized_pnl = @ + realized_pnl,
                                !.total_quantity = left,
                                !.total_cost = left * m.position.average_price]
  IN IF left <= DustEpsilon
     THEN [pm |-> [m EXCEPT !.position = PmClosePosition(pos),
                            !.total_cycles = @ + 1,
                            !.successful_cycles =
                               IF realized_pnl >= 0 THEN @ + 1 ELSE @],
           realized |-> realized_pnl, statuses |-> <<"closed", "empty">>]
     ELSE [pm |-> [m EXCEPT !.position = pos], realized |-> realized_pnl,
           statuses |-> <<>>]

\* _process_filled_order for a sell
PmProcessFilledSell(m, u) ==
  LET sold_quantity == u.filled_quantity
      cost_basis == m.position.average_price * sold_quantity
      realized_pnl == u.cost - cost_basis
      left == m.position.total_quantity - sold_quantity
      pos == [m.position EXCEPT !.realized_pnl = @ + realized_pnl,
                                !.total_quantity = left,
                                !.total_cost = left * m.position.average_price]
  IN IF left <= DustEpsilon
     THEN [pm |-> [m EXCEPT !.position = PmClosePosition(pos),
                            !.total_cycles = @ + 1,
                            !.successful_cycles =
                               IF realized_pnl > 0 THEN @ + 1 ELSE @],
           realized |-> realized_pnl, statuses |-> <<"closed", "empty">>]
     ELSE [pm |-> [m EXCEPT !.position = pos], realized |-> realized_pnl,
           statuses |-> <<>>]

PmProcessFilledOrder(m, u) ==
  IF u.side = "buy" THEN PmProcessFilledBuy(m, u) ELSE PmProcessFilledSell(m, u)

\* update_order_status without the test that the order is pending
PmUpdateOrderStatusUnchecked(m, u) ==
  IF u.side = "none"
  THEN [pm |-> m, realized |-> 0, statuses |-> <<>>]
  ELSE IF u.status = "filled"
  THEN LET done == PmProcessFilledOrder(m, u)
       IN [done EXCEPT !.pm.pending_orders[u.id] = NoOrder,
                       !.pm.completed[u.side] = @ + 1]
  ELSE IF u.status \in {"canceled", "rejected"}
  THEN [pm |-> [m EXCEPT !.pending_orders[u.id] = NoOrder,
                         !.completed[u.side] = @ + 1],
        realized |-> 0, statuses |-> <<>>]
  ELSE [pm |-> m, realized |-> 0, statuses |-> <<>>]

\* update_order_status(updated_order)
PmUpdateOrderStatus(m, u) ==
  IF m.pending_orders[u.id] = NoOrder
  THEN [pm |-> m, realized |-> 0, statuses |-> <<>>]
  ELSE IF u.status = "filled"
  THEN LET done == PmProcessFilledOrder(m, u)
       IN [done EXCEPT !.pm.pending_orders[u.id] = NoOrder,
                       !.pm.completed[u.side] = @ + 1]
  ELSE IF u.status \in {"canceled", "rejected"}
  THEN [pm |-> [m EXCEPT !.pending_orders[u.id] = NoOrder,
                         !.completed[u.side] = @ + 1],
        realized |-> 0, statuses |-> <<>>]
  ELSE [pm |-> m, realized |-> 0, statuses |-> <<>>]

\* add_buy_order(order_info)
PmAddBuyOrder(m, id, q) ==
  [m EXCEPT !.pending_orders[id] = [side |-> "buy", quantity |-> q],
            !.position.status = IF @ = "empty" THEN "building" ELSE @]

\* add_sell_order(order_info)
PmAddSellOrder(m, id, q) ==
  [m EXCEPT !.pending_orders[id] = [side |-> "sell", quantity |-> q],
            !.position.status =
               IF q >= m.position.total_quantity THEN "closing" ELSE @]

\* clear_position
PmClearPosition(m) ==
  [m EXCEPT !.position = PositionNew,
            !.pending_orders = [i \in PmIds |-> NoOrder]]

\* the orders the manager holds, pending or completed
PmOrdersSeen(m) ==
  m.completed.buy + m.completed.sell
    + Cardinality({i \in PmIds : m.pending_orders[i] # NoOrder})

pmOutside == <<runnerVars, riskVars, lmVars, ex, exLast, buys, se, seLast, boot, tickPc>>

PmAddBuyWithin(limit) ==
  /\ PmOrdersSeen(pm) < limit
  /\ \E id \in PmIds, q \in OrderQuantities :
       /\ pm.pending_orders[id] = NoOrder
       /\ pm' = PmAddBuyOrder(pm, id, q)
       /\ pmLast' = PmCall("add_buy", PmOrderUpdate(id, "buy", "new", q, 0), 0,
                           <<>>, pm)
  /\ UNCHANGED pmOutside

PmAddBuy == PmAddBuyWithin(MaxPmOrders)

PmAddSell ==
  /\ PmOrdersSeen(pm) < MaxPmOrders
  /\ \E id \in PmIds, q \in OrderQuantities :
       /\ pm.pending_orders[id] = NoOrder
       /\ pm' = PmAddSellOrder(pm, id, q)
       /\ pmLast' = PmCall("add_sell", PmOrderUpdate(id, "sell", "new", q, 0), 0,
                           <<>>, pm)
  /\ UNCHANGED pmOutside

\* update_order_status with the order as the executor hands it back; an id
\* that is not pending is the unknown order
PmUpdate ==
  /\ \E id \in PmIds, st \in UpdateStatuses, price \in FillPrices :
       LET o == pm.pending_orders[id]
           u == PmOrderUpdate(id, o.side, st, o.quantity, price)
           done == PmUpdateOrderStatus(pm, u)
       IN /\ pm' = done.pm
          /\ pmLast' = PmCall("update", u, done.realized, done.statuses, pm)
  /\ UNCHANGED pmOutside

PmClear ==
  /\ pm # PositionManagerNew
  /\ pm' = PmClearPosition(pm)
  /\ pmLast' = PmCall("clear", PmNoUpdate, 0, <<>>, pm)
  /\ UNCHANGED pmOutside

InitPM ==
  /\ RunnerNew
  /\ LMNew
  /\ rm = RiskManagerNew(VolatilityThreshold)
  /\ lastCheck = LastCheckNone
  /\ UnitsNew

NextPM ==
  \/ PmAddBuy
  \/ PmAddSell
  \/ PmUpdate
  \/ PmClear

SpecPM == InitPM /\ [][NextPM]_vars

\* the position manager given buys only, and more of them
PmAddBuyMany == PmAddBuyWithin(MaxPmBuys)

NextPMBuys ==
  \/ PmAddBuyMany
  \/ PmUpdate

SpecPMBuys == InitPM /\ [][NextPMBuys]_vars


(* --------------------- PositionManager: properties -------------------- *)
\* the last call was update_order_status with a Filled order of this side
\* that was pending
PmFilled(side) ==
  /\ pmLast.op = "update"
  /\ pmLast.order.status = "filled"
  /\ pmLast.order.side = side
  /\ pmLast.pre.pending_orders[pmLast.order.id] # NoOrder

\* C16: in every reachable PositionManager state the grid level is in
\* [0, max_grid_level], for any number of Filled buys.
C16_GridLevelInRange ==
  pm.position.grid_level \in 0 .. MaxGridLevel

\* the step is update_order_status with a pending sell, Filled
PmFilledSellStep ==
  /\ pmLast'.op = "update"
  /\ pmLast'.order.status = "filled"
  /\ pmLast'.order.side = "sell"
  /\ pm.pending_orders[pmLast'.order.id] # NoOrder

PmLeftAfterStep == pm.position.total_quantity - pmLast'.order.filled_quantity

C17_Step ==
  pmLast'.op \in {"add_buy", "add_sell", "update"} =>
    /\ pm'.position.grid_level >= pm.position.grid_level
         \/ pm'.position.grid_level = 0
    /\ pm'.position.grid_level < pm.position.grid_level
         => PmFilledSellStep /\ PmLeftAfterStep <= DustEpsilon
    /\ PmFilledSellStep /\ PmLeftAfterStep <= DustEpsilon
         => pm'.position.grid_level = 0
    /\ PmFilledSellStep /\ PmLeftAfterStep > DustEpsilon
         => pm'.position.grid_level = pm.position.grid_level

\* C17: over any sequence of order updates the grid level never decreases
\* while the position is open; it is reset to 0 by a Filled sell that leaves
\* total_quantity at or below the dust epsilon, always then and by no other
\* order update.
C17_GridLevelResetOnClose == [][C17_Step]_vars

\* a Filled sell left just the dust epsilon of a position of grid level 2
\* and reset the level
C17_Witness ==
  /\ PmFilled("sell")
  /\ pmLast.pre.position.grid_level = 2
  /\ pmLast.pre.position.total_quantity - pmLast.order.filled_quantity
       = DustEpsilon
  /\ pm.position.grid_level = 0

\* C18: whenever total_quantity > 0 the position satisfies
\* average_price * total_quantity = total_cost.
C18_AverageTimesQuantityIsCost ==
  pm.position.total_quantity > 0 =>
    pm.position.average_price * pm.position.total_quantity
      = pm.position.total_cost

\* C18 as the code has it: average_price is total_cost / total_quantity
\* rounded to the precision of the Decimal context, so the product differs
\* from total_cost by at most half a unit of the last place per unit held.
C18_AverageWithinRounding ==
  pm.position.total_quantity > 0 =>
    2 * Abs(pm.position.average_price * pm.position.total_quantity
              - pm.position.total_cost) <= pm.position.total_quantity

\* three Filled buys whose cost does not divide by the quantity held
C18_Witness ==
  /\ PmFilled("buy")
  /\ pm.position.total_quantity = 3
  /\ pm.position.total_cost % 3 # 0
  /\ pm.position.average_price * 3 # pm.position.total_cost

\* what the claim has a Filled sell do, but for the cost
PmSellEffect ==
  LET pre == pmLast.pre
      u == pmLast.order
      sold == u.filled_quantity
      left == pre.position.total_quantity - sold
      pnl == (u.average_price - pre.position.average_price) * sold
  IN /\ pmLast.realized = pnl
     /\ pm.position.realized_pnl = pre.position.realized_pnl + pnl
     /\ IF left <= DustEpsilon
        THEN /\ pm.position.total_quantity = 0
             /\ pm.position.total_cost = 0
             /\ pm.position.average_price = 0
             /\ pm.position.grid_level = 0
             /\ pmLast.statuses = <<"closed", "empty">>
             /\ pm.position.status = "empty"
             /\ pm.total_cycles = pre.total_cycles + 1
             /\ pm.successful_cycles =
                  pre.successful_cycles + (IF pnl > 0 THEN 1 ELSE 0)
        ELSE /\ pm.position.total_quantity = left
             /\ pm.position.average_price = pre.position.average_price
             /\ pm.position.grid_level = pre.position.grid_level
             /\ pm.total_cycles = pre.total_cycles
             /\ pm.successful_cycles = pre.successful_cycles

\* the cost of the sold part: average_price * sold_quantity
PmSoldCost ==
  pmLast.pre.position.average_price * pmLast.order.filled_quantity

PmOpenAfterSell ==
  pmLast.pre.position.total_quantity - pmLast.order.filled_quantity > DustEpsilon

C20_AddLevelBuy == ~buys.missed_add

(* ---------------------- StrategyExecutor on its own -------------------- *)
RECURSIVE Power(_, _)
Power(b, n) == IF n = 0 THEN 1 ELSE b * Power(b, n - 1)

\* _calculate_grid_amounts()[level]
GridAmount(level) == BaseAmount * Power(Multiplier, level)

\* The numbers of a position dict are exact (Decimal or int, as in
\* test_dantaro_strategy) or floats (the dict of get_current_position, which
\* has no 'last_buy_price').  Comparing a float with 0 works; arithmetic of
\* a Decimal price with a float raises TypeError: "raise".
SeShouldTakeProfit(price, pos) ==
  IF pos.average_price <= 0 THEN "no"
  ELSE IF pos.floats THEN "raise"
  ELSE IF ShouldTakeProfit(price, pos.average_price) THEN "yes" ELSE "no"

\* _should_add_position
SeShouldAddPosition(price, pos) ==
  IF pos.last_buy_price <= 0 \/ pos.grid_level >= GridLevels THEN "no"
  ELSE IF pos.floats THEN "raise"
  ELSE IF (pos.last_buy_price - price) * 100 >= DropThreshold * pos.last_buy_price
       THEN "yes" ELSE "no"

\* _should_stop_loss
SeShouldStopLoss(price, pos) ==
  IF pos.average_price <= 0 THEN "no"
  ELSE IF pos.floats THEN "raise"
  ELSE IF (price - pos.average_price) * 100 <= StopLoss * pos.average_price
       THEN "yes" ELSE "no"

SeRaise == [signal |-> HoldSignal, raised |-> TRUE]
SeReturn(signal) == [signal |-> signal, raised |-> FALSE]

\* _dantaro_initial_buy: grid_amounts[0] / current_price
DantaroInitialBuy(price) ==
  IF price = 0 THEN SeRaise
  ELSE SeReturn(StrategySignal("BUY", GridAmount(0), 0, 1))

\* _dantaro_add_buy_signal
DantaroAddBuySignal(price, current_level) ==
  LET next_level == current_level + 1
  IN IF next_level > GridLevels THEN SeReturn(HoldSignal)
     ELSE IF price = 0 THEN SeRaise
     ELSE SeReturn(StrategySignal("BUY", GridAmount(next_level - 1), 0, next_level))

\* _dantaro_sell_signal and _dantaro_stop_loss_signal
DantaroSellSignal(total_quantity) ==
  SeReturn(StrategySignal("SELL", 0, total_quantity, 0))

\* _execute_dantaro_strategy
ExecuteDantaroStrategy(price, pos) ==
  IF pos.grid_level = 0 THEN DantaroInitialBuy(price)
  ELSE IF SeShouldTakeProfit(price, pos) = "raise" THEN SeRaise
  ELSE IF SeShouldTakeProfit(price, pos) = "yes"
       THEN DantaroSellSignal(pos.total_quantity)
  ELSE IF SeShouldAddPosition(price, pos) = "raise" THEN SeRaise
  ELSE IF SeShouldAddPosition(price, pos) = "yes"
       THEN DantaroAddBuySignal(price, pos.grid_level)
  ELSE IF SeShouldStopLoss(price, pos) = "raise" THEN SeRaise
  ELSE IF SeShouldStopLoss(price, pos) = "yes"
       THEN DantaroSellSignal(pos.total_quantity)
  ELSE SeReturn(HoldSignal)

\* _analyze_market_condition: the trend of the price against the middle of
\* the ticker's high and low, which default to the price
NoTicker == [given |-> FALSE, high |-> 0, low |-> 0]
MarketTickers == {NoTicker, [given |-> TRUE, high |-> 210, low |-> 190]}
AnalyzeMarketCondition(price, ticker) ==
  LET high == IF ticker.given THEN ticker.high ELSE price
      low == IF ticker.given THEN ticker.low ELSE price
  IN IF price * 200 > (high + low) * 102 THEN "UP"
     ELSE IF price * 200 < (high + low) * 98 THEN "DOWN"
     ELSE "SIDEWAYS"

\* get_signal: market analysis, the handler, the signal history; an exception
\* of the handler skips the history and gives HOLD
SeGetSignal(s, price, pos, ticker) ==
  LET r == ExecuteDantaroStrategy(price, pos)
  IN [se |-> [recent_signals |-> IF r.raised THEN s.recent_signals
                                 ELSE Append(s.recent_signals, r.signal.action),
              trend |-> AnalyzeMarketCondition(price, ticker)],
      signal |-> r.signal, raised |-> r.raised]

\* the prices and positions get_signal is called with: an average and a last
\* buy of 200, against which 201 is a profit of 0.5 %, 196 a drop of 2 % and
\* 180 a loss of 10 %; a last buy of 182, from which 180 is no drop of 2 %
StrategyPrices == {0, 179, 180, 196, 199, 200, 201}
StrategyPositions ==
  {p \in [grid_level : {0, 1, GridLevels}, average_price : {0, 200},
          last_buy_price : {0, 182, 200}, total_quantity : {3},
          floats : BOOLEAN] :
     /\ p.floats => p.last_buy_price = 0
     /\ p.grid_level = 0 => p.average_price = 0 /\ p.last_buy_price = 0}

seOutside == <<runnerVars, riskVars, lmVars, ex, exLast, pm, pmLast, buys, boot, tickPc>>

StrategyGetSignal ==
  /\ Len(se.recent_signals) < MaxSignals
  /\ \E price \in StrategyPrices, pos \in StrategyPositions,
        ticker \in MarketTickers :
       LET r == SeGetSignal(se, price, pos, ticker)
       IN /\ se' = r.se
          /\ seLast' = [called |-> TRUE, price |-> price, position |-> pos,
                        signal |-> r.signal, raised |-> r.raised]
  /\ UNCHANGED seOutside

\* cleanup(): the history is cleared
StrategyCleanup ==
  /\ se.recent_signals # <<>>
  /\ se' = [se EXCEPT !.recent_signals = <<>>]
  /\ UNCHANGED seLast
  /\ UNCHANGED seOutside

InitStrategy ==
  /\ RunnerNew
  /\ LMNew
  /\ lastCheck = LastCheckNone
  /\ rm = RiskManagerNew(VolatilityThreshold)
  /\ UnitsNew

NextStrategy ==
  \/ StrategyGetSignal
  \/ StrategyCleanup

SpecStrategy == InitStrategy /\ [][NextStrategy]_vars

\* The decision table of the strategy on the values of the position: the
\* rates are those of the price against the average and the last buy.
TableProfit(price, pos) ==
  pos.average_price > 0
  /\ (price - pos.average_price) * 200 >= pos.average_price
TableDrop(price, pos) ==
  pos.last_buy_price > 0
  /\ (pos.last_buy_price - price) * 100 >= DropThreshold * pos.last_buy_price
  /\ pos.grid_level < GridLevels
TableLoss(price, pos) ==
  pos.average_price > 0
  /\ (price - pos.average_price) * 100 <= StopLoss * pos.average_price
TableSignal(price, pos) ==
  IF pos.grid_level = 0 THEN StrategySignal("BUY", GridAmount(0), 0, 1)
  ELSE IF TableProfit(price, pos) THEN StrategySignal("SELL", 0, pos.total_quantity, 0)
  ELSE IF TableDrop(price, pos)
       THEN StrategySignal("BUY", GridAmount(pos.grid_level), 0, pos.grid_level + 1)
  ELSE IF TableLoss(price, pos) THEN StrategySignal("SELL", 0, pos.total_quantity, 0)
  ELSE HoldSignal

\* C21: every get_signal call returns what the decision table gives for its
\* price and position: Buy of amount_0 at grid level 0, else Sell all (level
\* 0) at the profit target, else Buy of amount_level after the drop below
\* the highest level, else Sell all at the stop loss, else Hold.
C21_DecisionTable ==
  seLast.called => seLast.signal = TableSignal(seLast.price, seLast.position)

\* the table is followed when the price is positive and the numbers of the
\* position are exact
C21_TableOnExactInputs ==
  (seLast.called /\ seLast.price > 0 /\ ~seLast.position.floats)
    => seLast.signal = TableSignal(seLast.price, seLast.position)

(* -------------------- BotRunner: state and run() ---------------------- *)
\* the changes of BotRunner.state the state diagram has
StateDiagram ==
  {<<"idle", "initializing">>, <<"initializing", "idle">>, <<"idle", "running">>,
   <<"running", "paused">>, <<"paused", "running">>, <<"running", "stopping">>,
   <<"paused", "stopping">>, <<"stopping", "stopped">>}
   \cup {<<s, "error">> : s \in {"idle", "initializing", "running", "paused",
                                 "stopping", "stopped"}}

\* every change of BotRunner.state is one of the state diagram (Idle,
\* Initializing, Idle, Running <-> Paused, Stopping, Stopped, and Error from
\* any state)
C22_DiagramStep == state' # state => <<state, state'>> \in StateDiagram
C22_StateDiagram == [][C22_DiagramStep]_vars

\* C22: BotRunner.state changes only along the state diagram; in particular,
\* once the runner is Stopped or Error no step (no pause(), no resume())
\* moves it to Paused or Running.
C22_FinalStep ==
  state \in {"stopped", "error"} => state' \notin {"paused", "running"}
C22_NoWayBack == [][C22_FinalStep]_vars

(* ------------------- BotRunner.initialize step by step ----------------- *)
\* the configurations a runner is built from: the exchange, the strategy,
\* which of the settings _initialize_dantaro requires are given (capital is
\* added by _initialize_components), and whether the risk settings are numbers
BootConfigs ==
  [exchange : {"okx", "binance"},
   strategy : {"dantaro", "scalping", "grid", "other"},
   strategy_settings : SUBSET {"profit_target", "grid_levels"},
   risk_settings_ok : BOOLEAN]

\* _initialize_exchange_client: _get_api_keys gives None, so 'okx' takes the
\* dummy client; any other exchange raises ValueError inside the try, whose
\* except clause takes the dummy client as well
InitializeExchangeClient(config) ==
  [client |-> "dummy", failed |-> config.exchange # "okx"]

\* _initialize_components: the step that raises, or "none".  The strategy
\* executor raises in _initialize_dantaro when a required setting is missing,
\* the risk manager in Decimal(str(...)) of a setting that is no number; the
\* order executor and the position manager have nothing that fails.
InitializeComponents(config) ==
  IF config.strategy = "dantaro"
     /\ config.strategy_settings # {"profit_target", "grid_levels"}
  THEN "strategy_executor"
  ELSE IF ~config.risk_settings_ok THEN "risk_manager"
  ELSE "none"

\* _setup_initial_state: the price it leaves in last_price and whether its
\* try block raised (a 'last' that does not convert)
SetupInitialState(price, tk) ==
  [last_price |-> IF tk.kind = "ticker" THEN tk.last ELSE price,
   failed |-> tk.kind = "bad"]

\* initialize()
InitializeSteps ==
  /\ runPc = "new"
  /\ \E config \in BootConfigs, tk \in TickerAnswers :
       LET c == InitializeExchangeClient(config)
           f == InitializeComponents(config)
           t == SetupInitialState(last_price, tk)
       IN IF f = "none"
          THEN /\ state' = "idle"
               /\ runPc' = "ready"
               /\ last_price' = t.last_price
               /\ boot' = [called |-> TRUE, config |-> config, ticker |-> tk.kind,
                           client |-> c.client, client_failed |-> c.failed,
                           failed |-> f, ticker_failed |-> t.failed,
                           raised |-> FALSE]
          ELSE /\ state' = "error"
               /\ runPc' = "failed"
               /\ UNCHANGED last_price
               /\ boot' = [called |-> TRUE, config |-> config, ticker |-> "none",
                           client |-> c.client, client_failed |-> c.failed,
                           failed |-> f, ticker_failed |-> FALSE,
                           raised |-> TRUE]
  /\ UNCHANGED <<stop_requested, graceful_stop_requested, paused, running,
                 tick_count, error_count, total_profit, mainPc, hbPc, pricePc,
                 position, orders, obs, rm>>
  /\ UNCHANGED <<lastCheck, lmVars, ex, exLast, pm, pmLast, buys, se, seLast, tickPc>>

InitBoot ==
  /\ RunnerNew
  /\ LMNew
  /\ lastCheck = LastCheckNone
  /\ rm = RiskManagerNew(VolatilityThreshold)
  /\ UnitsNew

NextBoot == InitializeSteps

SpecBoot == InitBoot /\ [][NextBoot]_vars

\* a step of initialize() failed
BootStepFailed ==
  boot.client_failed \/ boot.failed # "none" \/ boot.ticker_failed

\* C23: when any step of initialize() fails (the exchange client, one of the
\* components, the initial price) the state is Error and initialize() fails;
\* it ends in Idle only when every step succeeded.
C23_InitializeAllOrNothing ==
  boot.called =>
    /\ BootStepFailed => state = "error" /\ boot.raised
    /\ state = "idle" => ~BootStepFailed

\* a failing component does give Error and a failing initialize()
C23_ComponentFailure ==
  (boot.called /\ boot.failed # "none") => state = "error" /\ boot.raised

(* ----------------------- BotRunner under fairness ---------------------- *)
\* The event loop runs every task that is ready and every sleep of a loop
\* ends: a loop that can take its next iteration, or end, does so, and run()
\* goes on once its gather is complete.
RunnerFairness ==
  /\ WF_vars(Tick)
  /\ WF_vars(MainLoopExit)
  /\ WF_vars(HeartbeatLoop)
  /\ WF_vars(PriceUpdateLoop)
  /\ WF_vars(RunFinish)

SpecRunnerFair == InitRunner /\ [][NextRunner]_vars /\ RunnerFairness

\* final cleanup starts only in a run() whose three loops have ended
C24_CleanupStep ==
  (runPc # "returned" /\ runPc' = "returned") =>
    /\ runPc = "gather"
    /\ mainPc = "done" /\ hbPc = "done" /\ pricePc = "done"
C24_CleanupAfterLoops == [][C24_CleanupStep]_vars

\* C24: on every exit path of run() the three loops have ended before final
\* cleanup starts, and final cleanup runs exactly once: once the main trading
\* loop has ended (stop, graceful stop or emergency stop), run() goes on to
\* its final cleanup.
C24_FinalCleanupOnEveryExit ==
  (runPc = "gather" /\ mainPc = "done") ~> (runPc = "returned")

\* a runner whose risk settings give max_loss_percentage: its default, or 0
\* (stop as soon as the total profit is not positive)
MaxLossSettings == {MaxLossPercentage, 0}
InitConfigured ==
  /\ RunnerNew
  /\ LMNew
  /\ lastCheck = LastCheckNone
  /\ UnitsNew
  /\ \E max_loss \in MaxLossSettings :
       rm = [RiskManagerNew(VolatilityThreshold)
               EXCEPT !.max_loss_percentage = max_loss]

SpecConfigured == InitConfigured /\ [][NextRunner]_vars

\* C25: the state is Error only after an initialization failure or after the
\* emergency stop for consecutive tick failures; a breach found by the
\* RiskManager never puts the bot into Error.
C25_ErrorOnlyByFailures ==
  state = "error" => (runPc = "failed" \/ obs.error_stop)

\* the state run() must end with: Error after an emergency stop, else Stopped
StateAfterRun == IF obs.emergency_stops > 0 THEN "error" ELSE "stopped"

\* while the stop flag is set no tick starts
C26_NoNewTick == stop_requested => tick_count' = tick_count
C26_NoTickAfterStop == [][C26_NoNewTick]_vars

\* C26: after stop() on a running BotRunner the flag is seen at the loops'
\* iteration boundaries, and run() returns with state Stopped, or Error if
\* an emergency stop had occurred.
C26_ReturnsStoppedOrError ==
  (runPc = "returned" /\ stop_requested) => state = StateAfterRun

(* ------------------ BotLifecycleManager: isolation -------------------- *)
\* what the manager holds for one bot: whether it is registered, its
\* BotContext with the runner's flags and position, its run task and its row
BotView(b) == <<b \in running_bots, context[b], task[b], db[b]>>

\* the bots for which a step changes any of it
BotsChanged == {b \in Bots : BotView(b)' # BotView(b)}

\* C27: a step that concerns one bot (a handler called for it, its run task
\* beginning, ticking or ending) changes nothing of any other bot; the
\* monitor's sweep changes only the bots it found dead, the manager's start
\* only the rows left RUNNING, the manager's stop only the registered bots.
C27_Step ==
  IF monitor' # monitor
  THEN BotsChanged \subseteq
         (IF monitor = "new" THEN {b \in Bots : db[b].status = "running"}
          ELSE running_bots)
  ELSE IF reply'.op = "sweep" THEN BotsChanged \subseteq DeadBots
  ELSE IF reply'.op # "none" THEN BotsChanged \subseteq {reply'.bot}
  ELSE Cardinality(BotsChanged) <= 1
SessionEnters == FALSE

\* _recover_running_bots on the Bot rows: inside the session every row with
\* status RUNNING is set to STOPPED; an exception is logged and swallowed
RecoverRunningBots(rows) ==
  IF SessionEnters
  THEN [b \in Bots |->
          IF rows[b].status = "running"
          THEN [status |-> "stopped", error_message |-> "server restart"]
          ELSE rows[b]]
  ELSE rows

\* start(): _recover_running_bots, then the monitor task is created
ManagerStartAsWritten ==
  /\ monitor = "new"
  /\ db' = RecoverRunningBots(db)
  /\ monitor' = "on"
  /\ reply' = NoReply
  /\ UNCHANGED <<running_bots, context, task, now, runnerVars, riskVars, unitVars>>

\* a manager constructed over the rows a previous process left, in any status
InitRecovery ==
  /\ RunnerNew
  /\ running_bots = {}
  /\ context = [b \in Bots |-> ContextNew(0)]
  /\ task = [b \in Bots |-> "none"]
  /\ db \in [Bots -> [status : BotStatus, error_message : {"none"}]]
  /\ now = 0
  /\ monitor = "new"
  /\ reply = NoReply
  /\ lastCheck = LastCheckNone
  /\ UnitsNew
  /\ rm = RiskManagerNew(VolatilityThreshold)

NextRecovery ==
  \/ ManagerStartAsWritten
  \/ MonitorSweep
  \/ AdvanceClock
  \/ ManagerStop

SpecRecovery == InitRecovery /\ [][NextRecovery]_vars

\* C28: when start() completes, every bot persisted as Running is persisted
\* as Stopped with the restart reason, the rows of the other bots are
\* unchanged, and the registry is empty (no runner was created).
C28_Step ==
  (monitor = "new" /\ monitor' = "on") =>
    /\ \A b \in Bots :
         db'[b] = IF db[b].status = "running"
                  THEN [status |-> "stopped", error_message |-> "server restart"]
                  ELSE db[b]
    /\ running_bots' = {}
    /\ \A b \in Bots : task'[b] = "none"
C28_RecoveryMarksStopped == [][C28_Step]_vars

(* --------- PositionManager: reports of orders it does not hold -------- *)
\* the most orders given to the manager where unknown orders are reported
MaxPmUnknown == 2

PmAddBuyFew == PmAddBuyWithin(MaxPmUnknown)

\* update_order_status with a report of an order that is not pending: one
\* never registered, or one retired by an earlier report
PmUpdateUnknown ==
  /\ \E id \in PmIds, side \in {"buy", "sell"}, st \in UpdateStatuses,
        q \in OrderQuantities, price \in FillPrices :
       /\ pm.pending_orders[id] = NoOrder
       /\ LET u == PmOrderUpdate(id, side, st, q, price)
              done == PmUpdateOrderStatus(pm, u)
          IN /\ pm' = done.pm
             /\ pmLast' = PmCall("update_unknown", u, done.realized,
                                 done.statuses, pm)
  /\ UNCHANGED pmOutside

NextPMUnknown ==
  \/ PmAddBuyFew
  \/ PmUpdate
  \/ PmUpdateUnknown

SpecPMUnknown == InitPM /\ [][NextPMUnknown]_vars

\* C29: update_order_status for an order that is not pending (never
\* registered, or retired) changes nothing: position, pending orders,
\* completed orders and cycle counters are as before the call, nothing is
\* realized and no status change is reported; so a Filled order reported
\* again does not change the position a second time.
C29_UnknownOrderIsNoOp ==
  (pmLast.op \in {"update", "update_unknown"}
   /\ pmLast.pre.pending_orders[pmLast.order.id] = NoOrder)
    => /\ pm = pmLast.pre
       /\ pmLast.realized = 0
       /\ pmLast.statuses = <<>>

\* a buy was filled and retired, the position is held, and a Filled buy is
\* reported for the id that is no longer pending
C29_Witness ==
  /\ pmLast.op = "update_unknown"
  /\ pmLast.order.status = "filled"
  /\ pmLast.order.side = "buy"
  /\ pmLast.pre.completed.buy >= 1
  /\ pmLast.pre.position.total_quantity > 0
  /\ pm.position.total_quantity > 0

(* ------------------- RiskManager: trades per hour --------------------- *)
\* check_risk at a steady price: the volatility rule sees no change
SteadyPrices == {100}
RiskCheckSteady == RiskCheckAt(SteadyPrices)
NextRiskHourly == RiskCheckSteady \/ RiskRecordTrade
SpecRiskHourly == InitRisk /\ [][NextRiskHourly]_vars

\* C30: when at least max_trades_per_hour trades are recorded in the current
\* hour window, check_risk says should_pause unless the loss limit or the
\* position size is breached; when the hour window has elapsed the hourly
\* count is reset at the start of check_risk and is not what pauses.
C30_HourlyTradeLimit ==
  lastCheck.called =>
    /\ (/\ ~lastCheck.hour_elapsed
        /\ lastCheck.pre.trade_count_hour >= MaxTradesPerHour
        /\ lastCheck.total_profit * 100 > MaxLossPercentage * Capital
        /\ lastCheck.cost * 100 <= MaxPositionSize * Capital)
         => lastCheck.result.should_pause
    /\ lastCheck.hour_elapsed
         => /\ lastCheck.post.trade_count_hour = 0
            /\ lastCheck.result.rule # "trades_hour"

\* trades were recorded up to the hourly limit exactly, and the check in the
\* same hour pauses for it
C30_Witness ==
  /\ lastCheck.called
  /\ lastCheck.recorded >= 1
  /\ ~lastCheck.hour_elapsed
  /\ lastCheck.pre.trade_count_hour = MaxTradesPerHour
  /\ lastCheck.result.should_pause
  /\ lastCheck.result.rule = "trades_hour"

\* the hour has elapsed for a manager at the hourly limit: the check resets
\* the count and passes
C30_WitnessReset ==
  /\ lastCheck.called
  /\ lastCheck.hour_elapsed
  /\ lastCheck.recorded >= 1
  /\ rm.trade_count_hour = 0
  /\ rm.trade_count_day >= MaxTradesPerHour
  /\ lastCheck.result.rule = "passed"

(* --------------- BotRunner: the tick's reaction to risk --------------- *)
\* a runner whose reactions to check_risk are counted, with max_loss_percentage
\* drawn as for SpecConfigured
InitRiskTicks ==
  /\ RunnerNew
  /\ LMNew
  /\ lastCheck = LastCheckNone
  /\ ex = ExecutorNew
  /\ exLast = ExLastNone
  /\ pm = PositionManagerNew
  /\ pmLast = PmLastNone
  /\ buys = [BuysNew(FALSE) EXCEPT !.risk_watch = TRUE]
  /\ se = StrategyExecutorNew
  /\ seLast = SeLastNone
  /\ boot = BootNone
  /\ tickPc = "top"
  /\ \E max_loss \in MaxLossSettings :
       rm = [RiskManagerNew(VolatilityThreshold)
               EXCEPT !.max_loss_percentage = max_loss]

SpecRiskTicks == InitRiskTicks /\ [][NextRunner]_vars

\* the orders a step adds
OrdersAdded == SubSeq(orders', Len(orders) + 1, Len(orders'))

\* C31: in a tick, check_risk comes before get_signal; a tick whose risk
\* result is should_stop or should_pause generates no signal and submits no
\* strategy order: on should_stop it liquidates (every order is sent for
\* cancellation, one market sell if a quantity is held) and the loop ends,
\* on should_pause the runner is Paused and the loop goes on.
C31_Step ==
  /\ buys'.risk_stops > buys.risk_stops =>
       /\ tick_count' = tick_count + 1
       /\ mainPc' = "done"
       /\ stop_requested'
       /\ position' = position
       /\ obs'.emergency_stops = obs.emergency_stops + 1
       /\ obs'.consec = obs.consec
       /\ \A i \in DOMAIN OrdersAdded : OrdersAdded[i].side = "sell"
       /\ Len(OrdersAdded) <= IF position.total_quantity > 0 THEN 1 ELSE 0
  /\ buys'.risk_pauses > buys.risk_pauses =>
       /\ tick_count' = tick_count + 1
       /\ paused' /\ state' = "paused"
       /\ mainPc' = "loop" /\ ~stop_requested'
       /\ orders' = orders
       /\ position' = position
       /\ obs' = obs
  /\ (tick_count' = tick_count + 1
        /\ (Len(orders') > Len(orders) \/ obs'.consec < obs.consec)) =>
       \/ buys'.risk_stops > buys.risk_stops
       \/ \E h \in HourChoices(rm), d \in DayChoices(rm) :
            LET r == CheckRisk(rm, last_price', position, total_profit, h, d).result
            IN ~r.should_stop /\ ~r.should_pause

C31_RiskBeforeSignal == [][C31_Step]_vars

\* a tick of a runner with a buy order out was paused by check_risk
C31_Witness ==
  /\ buys.risk_pauses >= 1
  /\ paused /\ state = "paused"
  /\ mainPc = "loop"
  /\ Len(orders) >= 1
  /\ position.status = "building"

\* a tick was stopped by check_risk and the main loop has ended
C31_WitnessStop ==
  /\ buys.risk_stops = 1
  /\ mainPc = "done"
  /\ state = "error"
  /\ ~obs.error_stop

(* ------------- BotRunner: the tick followed await by await ------------ *)
\* _main_trading_loop from the top of an iteration to its first await that
\* lets the other tasks run: the pause flag and the graceful stop are tested,
\* then the tick waits for _get_market_data
TickEnter ==
  /\ mainPc = "loop"
  /\ tickPc = "top"
  /\ ~stop_requested
  /\ tick_count < MaxStepTicks
  /\ tick_count' = tick_count + 1
  /\ IF paused THEN TickIdle /\ UNCHANGED tickPc
     ELSE IF graceful_stop_requested /\ ~HasOpenPosition(position)
     THEN TickBreak /\ UNCHANGED tickPc
     ELSE /\ tickPc' = "market"
          /\ UNCHANGED <<state, stop_requested, graceful_stop_requested, paused,
                         running, error_count, last_price, total_profit, runPc,
                         mainPc, hbPc, pricePc, position, orders, rm, obs, buys>>
  /\ UNCHANGED stepOutside

\* the rest of the iteration, from the answer of _get_market_data on
TickMarket ==
  /\ mainPc = "loop"
  /\ tickPc = "market"
  /\ tickPc' = "top"
  /\ \E tk \in TickerAnswers :
       IF tk.kind = "none" THEN TickIdle
       ELSE IF tk.kind = "bad" THEN TickFailed
       ELSE TickTrade(tk.last)
  /\ UNCHANGED <<tick_count, stepOutside>>

\* the loop condition is read between two iterations
MainLoopExitAtTop == tickPc = "top" /\ MainLoopExit

\* the runner with the volatility threshold set wide
InitTickSteps ==
  /\ RunnerNew
  /\ LMNew
  /\ lastCheck = LastCheckNone
  /\ UnitsNew
  /\ rm = RiskManagerNew(20 * VolatilityThreshold)

NextTickSteps ==
  \/ Initialize
  \/ RunBegin
  \/ TickEnter
  \/ TickMarket
  \/ MainLoopExitAtTop
  \/ HeartbeatLoop
  \/ PriceUpdateLoop
  \/ RunFinish
  \/ Stop
  \/ RequestGracefulStop
  \/ Pause
  \/ Resume
  \/ ExchangeFill

SpecTickSteps == InitTickSteps /\ [][NextTickSteps]_vars

\* C32: while the pause flag is set the main loop evaluates neither risk nor
\* strategy and submits no order, whenever pause() and resume() come between
\* the steps of a tick; trading goes on only after resume().
C32_PausedStep ==
  paused => /\ Len(orders') = Len(orders)
            /\ rm' = rm
            /\ position' = position
OrderSets(os) == [i \in DOMAIN os |-> [os[i] EXCEPT !.exch = "open"]]

\* C33: the position and the executor's active/completed orders of a bot are
\* written by one task at a time: by a step of the main loop, or by the
\* cleanup of run() once the loops have ended; while a tick is suspended at
\* an await no other task (heartbeat loop, price loop, stop(), pause(),
\* resume(), request_graceful_stop()) changes them.
C33_Step ==
  /\ (position' # position \/ OrderSets(orders') # OrderSets(orders)) =>
       \/ mainPc = "loop" /\ (tick_count' # tick_count \/ tickPc' # tickPc)
       \/ runPc = "gather" /\ runPc' = "returned" /\ mainPc = "done"
  /\ (tickPc = "market" /\ tickPc' = "market") =>
       /\ position' = position
       /\ OrderSets(orders') = OrderSets(orders)
C33_SingleWriter == [][C33_Step]_vars

\* pause() and stop() have been called while a tick of a bot that holds a
\* quantity and has an order at the exchange waits for its market data
C33_Witness ==
  /\ tickPc = "market"
  /\ paused /\ stop_requested
  /\ position.total_quantity > 0
  /\ \E i \in DOMAIN orders : orders[i].active


(* ------------- BotLifecycleManager: a Start after a removal ----------- *)
\* _start_bot, lines 117-147, for a bot whose key has left the registry while
\* the task of its runner is still executing run(): the test of the registry
\* and of the persisted status pass, and a new context with a new runner
\* takes the key.  The runner of the old context runs on.
RegisterNextRunner(b) ==
  /\ Startable(b)
  /\ task[b] = "running"
  /\ context[b].earlier < MaxEarlier
  /\ running_bots' = running_bots \cup {b}
  /\ context' = [context EXCEPT ![b] =
                   [ContextNew(now) EXCEPT !.earlier = context[b].earlier + 1]]
  /\ task' = [task EXCEPT ![b] = "starting"]
  /\ reply' = NoReply
  /\ UNCHANGED <<db, now, monitor, runnerVars, riskVars, unitVars>>

\* the run() of an earlier runner returns (its own emergency stop): the
\* finally clause of its _run_bot deletes the bot's key if there is one
EarlierRunEnd(b) ==
  /\ context[b].earlier > 0
  /\ context' = [context EXCEPT ![b].earlier = @ - 1]
  /\ running_bots' = running_bots \ {b}
  /\ reply' = [NoReply EXCEPT !.op = "earlier_end", !.bot = b,
                              !.registered = b \in running_bots]
  /\ UNCHANGED <<task, db, now, monitor, runnerVars, riskVars, unitVars>>

NextStarts ==
  \/ ManagerStart
  \/ ManagerStop
  \/ MonitorSweep
  \/ AdvanceClock
  \/ \E b \in Bots : monitor = "on" /\ RegisterRunner(b)
  \/ \E b \in Bots : monitor = "on" /\ RegisterNextRunner(b)
  \/ \E b \in Bots : PersistRunning(b)
  \/ \E b \in Bots : RunTaskBegin(b)
  \/ \E b \in Bots : RunnerTick(b)
  \/ \E b \in Bots : RunTaskEnd(b)
  \/ \E b \in Bots : EarlierRunEnd(b)

SpecStarts == InitLM /\ [][NextStarts]_vars

\* the runners of bot b that execute run()
Executing(b) == context[b].earlier + (IF task[b] = "running" THEN 1 ELSE 0)

RunnerAlive(b) ==
  \/ task[b] \in {"starting", "scheduled"}
  \/ task[b] = "running" /\ ~context[b].stop_requested

C36_Step ==
  /\ \A b \in running_bots \ running_bots' :
       \/ context'[b].stop_requested
       \/ task'[b] = "finished"
       \/ reply'.op = "earlier_end"
  /\ reply'.op = "earlier_end" => ~reply'.registered
BuysSubmitted == {i \in DOMAIN orders : orders[i].side = "buy"}

\* the notional of the grid schedule up to a level
RECURSIVE ScheduleUpTo(_)
ScheduleUpTo(level) ==
  IF level <= 0 THEN 0 ELSE GridAmount(level - 1) + ScheduleUpTo(level - 1)

\* C37: within one accumulation cycle the tick loop submits at most one buy
\* order per grid level: with grid_level levels filled there is at most one
\* more buy, and the notional of the buys submitted (each one the amount of
\* the first level, the only level the loop ever signals) stays within the
\* schedule up to that level, hence within the whole schedule.
C37_OneBuyPerGridLevel ==
  /\ Cardinality(BuysSubmitted) <= position.grid_level + 1
  /\ Cardinality(BuysSubmitted) * GridAmount(0) <= ScheduleUpTo(position.grid_level + 1)
  /\ Cardinality(BuysSubmitted) * GridAmount(0) <= ScheduleUpTo(GridLevels)


(* ------------- OrderExecutor: orders the exchange accepted ------------ *)
\* C38: whenever the exchange answers a submission with an order record,
\* create_market_order / create_limit_order return an Order that is in the
\* active or the completed set and count it as submitted, whatever status
\* the record carries ('closed' included); no failure is counted for it.
C38_AcceptedOrderIsTracked ==
  (exLast.op = "create" /\ exLast.id # 0) =>
    /\ exLast.returned
    /\ exLast.id \in ex.active_orders \cup ExCompletedIds(ex)
    /\ ex.total_orders = exLast.pre.total_orders + 1
    /\ ex.failed_orders = exLast.pre.failed_orders


(* ------------ PositionManager: orders that end partly filled ---------- *)
\* update_order_status with a pending order of more than one unit that the
\* exchange ended, Canceled or Expired, after it had filled one unit of it
PartialEnds == {"canceled", "expired"}

PmUpdatePartial ==
  /\ \E id \in PmIds, st \in PartialEnds, price \in FillPrices :
       LET o == pm.pending_orders[id]
           u == [id |-> id, side |-> o.side, status |-> st, filled_quantity |-> 1,
                 average_price |-> price * MoneyScale, cost |-> price * MoneyScale]
           done == PmUpdateOrderStatus(pm, u)
       IN /\ o # NoOrder
          /\ o.quantity > 1
          /\ pm' = done.pm
          /\ pmLast' = PmCall("update", u, done.realized, done.statuses, pm)
  /\ UNCHANGED pmOutside

NextPMPartial ==
  \/ PmAddBuyFew
  \/ PmAddSell
  \/ PmUpdate
  \/ PmUpdatePartial

SpecPMPartial == InitPM /\ [][NextPMPartial]_vars

\* the quantity an order that has reached its end adds to the position
PmSigned(u) == IF u.side = "buy" THEN u.filled_quantity ELSE 0 - u.filled_quantity

\* C39: the quantity held is the filled quantity of the cycle's buys less
\* that of its sells: every update that brings a pending order at its end
\* (Filled, Canceled, Rejected or Expired) moves total_quantity by the
\* quantity the order has filled, unless it is the sell that closes the cycle.
C39_Step ==
  (/\ pmLast'.op = "update"
   /\ pmLast' # pmLast
   /\ pm.pending_orders[pmLast'.order.id] # NoOrder
   /\ IsCompleted(pmLast'.order.status))
  => \/ pm'.position.total_quantity
          = pm.position.total_quantity + PmSigned(pmLast'.order)
     \/ /\ pmLast'.order.side = "sell"
        /\ pm.position.total_quantity + PmSigned(pmLast'.order) <= DustEpsilon
        /\ pm'.position.total_quantity = 0
C39_QuantityConserved == [][C39_Step]_vars

\* C40: has_open_position() is true only while a quantity above the dust
\* epsilon is held or an order is pending; after the only pending order is
\* Canceled or Rejected with nothing held the position is Empty again.
\* Stated for a position that holds nothing at all and has no order pending.
C40_FlatIsNotOpen ==
  (/\ \A i \in PmIds : pm.pending_orders[i] = NoOrder
   /\ pm.position.total_quantity = 0)
  => ~HasOpenPosition(pm.position)
====
